---------------------------- MODULE Spec2Model ----------------------------
(***************************************************************************)
(* Derived-metrics logic of the vayapari front end:                        *)
(*   InventoryManagement.tsx (the API-backed revision that starts at line  *)
(*   1161): stock classifier, status counts, dead-stock detector,          *)
(*   category-value aggregator, table processor;                           *)
(*   OrderManagement.tsx: order normalizer, customer aggregator, top       *)
(*   customer, table processor;                                            *)
(*   InventoryManagement1.tsx: table processor.                            *)
(*                                                                         *)
(* Representation of JavaScript values                                     *)
(*   optional field   <<>> is undefined, <<v>> is the value v              *)
(*   date string      [text, y, m, d, sec]: text = "iso" is the ISO form   *)
(*                    YYYY-MM-DD (plus sec seconds of the day, UTC),       *)
(*                    text = "bad" an unparseable string, text = "" the    *)
(*                    empty string                                         *)
(*   Date             <<>> is an Invalid Date (getTime() is NaN), <<t>> a  *)
(*                    valid one; t counts seconds since the epoch where    *)
(*                    the code counts milliseconds (every constant of the  *)
(*                    code is a whole number of seconds)                   *)
(*   number | null    [kind, value] with kind "number", "null" or "NaN"    *)
(*   string           a TLA+ string; a character is a string of length 1   *)
(*   quotient         [kind, num, den]: num / den when kind is "number",   *)
(*                    else kind is "Infinity", "-Infinity" or "NaN"        *)
(***************************************************************************)
EXTENDS Integers, Sequences, FiniteSets, TLC

VARIABLES
    items,               \* useState<InventoryItem[]>: the collection held in state
    now,                 \* the ambient clock, what new Date() returns
    ticks,               \* how often the clock has advanced (bounds the model)
    computed,            \* which memoised values the render has evaluated
    stockStatuses,       \* getItemStatus of every item, in item order
    stockHealthData,     \* useMemo stockHealthData
    deadStockItems,      \* useMemo deadStockItems
    deadStockAt,         \* the currentDate the deadStockItems memo captured
    categoryValueData,   \* useMemo categoryValueData
    totalInventoryValue, \* useMemo totalInventoryValue
    liveOrders,          \* what getOrdersData() resolved to
    orders,              \* useState<Order[]> of OrderManagement
    customerMap,         \* the Map built by the render, entries in insertion order
    topCustomerEntry,    \* the reduce over customerMap.values()
    searchTerm,          \* useState('') of the table
    categoryFilter,      \* useState('all')
    statusFilter,        \* useState('all')
    dateFilter,          \* useState('all') of OrderManagement
    selectedDate,        \* useState<Date | null>(null) of OrderManagement
    sortConfig,          \* useState<SortConfig | null>
    processedItems,      \* useMemo processedItems
    processedOrders,     \* useMemo processedOrders
    customers,           \* useState<Customer[]> of CustomerManagement
    topCustomersChartData, \* useMemo topCustomersChartData
    sortRequests,        \* the keys requestSort was called with, oldest first
    isLoading,           \* useState(true) of InventoryManagement
    refreshTrigger,      \* useState(0) of InventoryManagement
    loads,               \* the loadData calls awaiting getInventoryData()
    upload,              \* where the last handleFileSelectAndUpload call is
    selectedItem,        \* useState<InventoryItem | null>(null)
    isDeleteModalOpen,   \* useState(false)
    deletes,             \* the handleDeleteItem calls awaiting the server
    statusRequests,      \* the handleStatusChange calls awaiting the server
    deleteRequests,      \* the handleDeleteOrder calls awaiting the server
    selectedPeriod,      \* useState<TimePeriod>('today') of Dashboard
    dashboardData,       \* useState<DashboardData | null>(null): data
    error,               \* useState<string | null>(null) of Dashboard
    dashboardIsLoading,  \* useState(true) of Dashboard
    fetches,             \* the loadData calls of Dashboard awaiting the server
    fetchCount,          \* how many fetches Dashboard has started
    periodFilter,        \* useState('all') of CustomerManagement
    customerIsLoading,   \* useState(true) of CustomerManagement: isLoading
    customerFetches,     \* the fetchCustomers calls awaiting the server
    customerFetchCount,  \* how many fetchCustomers calls have started
    customerSaves,       \* the handleSaveCustomer calls awaiting the server
    customersFor,        \* the period of the response that customers holds
    overflow,            \* document.body.style.overflow
    overflowBefore,      \* document.body.style.overflow before any Portal mounted
    portals,             \* per Portal instance: the captured originalOverflow
    user,                \* useState<User | null>(null) of AuthProvider
    authIsLoading,       \* useState(false) of AuthProvider
    token,               \* localStorage 'vyapari_token'
    logins,              \* the login calls awaiting loginUser()
    loginResults,        \* what the finished login calls resolved to
    logouts              \* how often logout() has been called

\* The state of the OrderManagement component and of its aggregates.
orderVars == <<liveOrders, orders, customerMap, topCustomerEntry>>

\* The controls of a table and the processed collections.
tableVars == <<searchTerm, categoryFilter, statusFilter, dateFilter, selectedDate,
               sortConfig, processedItems, processedOrders>>

\* The state of the derived inventory metrics.
metricVars == <<items, now, ticks, computed, stockStatuses, stockHealthData,
                deadStockItems, deadStockAt, categoryValueData,
                totalInventoryValue>>

\* The customer list of CustomerManagement and its chart series.
chartVars == <<customers, topCustomersChartData>>

\* The asynchronous handlers of InventoryManagement.
inventoryVars == <<isLoading, refreshTrigger, loads, upload, selectedItem,
                   isDeleteModalOpen, deletes>>

\* The requests of OrderManagement that are in flight.
requestVars == <<statusRequests, deleteRequests>>

\* The state of Dashboard.
dashboardVars == <<selectedPeriod, dashboardData, error, dashboardIsLoading, fetches,
                   fetchCount>>

\* The fetch effect of CustomerManagement.
customerVars == <<periodFilter, customerIsLoading, customerFetches,
                  customerFetchCount, customerSaves, customersFor>>

\* The scroll lock of the Portal instances.
portalVars == <<overflow, overflowBefore, portals>>

\* The state of AuthProvider.
authVars == <<user, authIsLoading, token, logins, loginResults, logouts>>

\* The state of the interactive handlers.
sessionVars == <<chartVars, sortRequests, inventoryVars, requestVars,
                 dashboardVars, customerVars,
                 portalVars, authVars>>

vars == <<items, now, ticks, computed, stockStatuses, stockHealthData,
          deadStockItems, deadStockAt, categoryValueData, totalInventoryValue,
          orderVars, tableVars, sessionVars>>

\* No order has been fetched.
OrdersIdle ==
    /\ liveOrders = <<>>
    /\ orders = <<>>
    /\ customerMap = <<>>
    /\ topCustomerEntry = <<>>

\* The controls of a table nobody has used, nothing processed.
TableIdle ==
    /\ searchTerm = ""
    /\ categoryFilter = "all"
    /\ statusFilter = "all"
    /\ dateFilter = "all"
    /\ selectedDate = <<>>
    /\ sortConfig = <<>>
    /\ processedItems = <<>>
    /\ processedOrders = <<>>

\* CustomerManagement holds no customer, no chart has been computed.
ChartIdle ==
    /\ customers = <<>>
    /\ topCustomersChartData = <<>>

\* InventoryManagement before its first effect: nothing is in flight.
InventoryIdle ==
    /\ isLoading = TRUE
    /\ refreshTrigger = 0
    /\ loads = {}
    /\ upload = "none"
    /\ selectedItem = <<>>
    /\ isDeleteModalOpen = FALSE
    /\ deletes = {}

\* No request of OrderManagement is in flight.
RequestsIdle ==
    /\ statusRequests = {}
    /\ deleteRequests = {}

\* Dashboard before its first effect.
DashboardIdle ==
    /\ selectedPeriod = "today"
    /\ dashboardData = <<>>
    /\ error = <<>>
    /\ dashboardIsLoading = TRUE
    /\ fetches = {}
    /\ fetchCount = 0

\* CustomerManagement before its first effect.
CustomerIdle ==
    /\ periodFilter = "all"
    /\ customerIsLoading = TRUE
    /\ customerFetches = {}
    /\ customerFetchCount = 0
    /\ customerSaves = 0
    /\ customersFor = <<>>

\* No Portal is mounted.
PortalIdle ==
    /\ overflow = ""
    /\ overflowBefore = ""
    /\ portals = <<>>

\* AuthProvider after construction.
AuthIdle ==
    /\ user = <<>>
    /\ authIsLoading = FALSE
    /\ token = <<>>
    /\ logins = {}
    /\ loginResults = <<>>
    /\ logouts = 0

\* No interactive handler has run.
SessionIdle ==
    /\ ChartIdle
    /\ sortRequests = <<>>
    /\ InventoryIdle
    /\ RequestsIdle
    /\ DashboardIdle
    /\ CustomerIdle
    /\ PortalIdle
    /\ AuthIdle

-----------------------------------------------------------------------------
(* Bounds of the model *)

MaxStatusItems == 2   \* items in a collection of the classifier specification
MaxQuantity == 2      \* quantities range over 0..MaxQuantity
MaxThreshold == 2     \* thresholds range over 0..MaxThreshold, or are missing
MaxDeadItems == 1     \* items in a collection of the dead-stock specification
MaxTicks == 2         \* clock advances in the dead-stock specification
MaxCatItems == 8      \* catalogue positions in the aggregator specification
MaxCatQuantity == 1   \* quantities of the aggregator specification

(* Program constants *)

DeadStockDays == 90   \* 90 * 24 * 60 * 60 * 1000
TopK == 5             \* sortedCategories.slice(0, 5)

SecondsPerDay == 24 * 60 * 60

-----------------------------------------------------------------------------
(* JavaScript values *)

Undefined == <<>>
Some(v) == <<v>>
IsDefined(o) == Len(o) = 1

\* o || d for an optional number: undefined and 0 are falsy.
OrNumber(o, d) == IF IsDefined(o) /\ o[1] # 0 THEN o[1] ELSE d

\* o || d for an optional string: undefined and "" are falsy.
OrString(o, d) == IF IsDefined(o) /\ o[1] # "" THEN o[1] ELSE d

\* !!o for an optional date string.
TruthyDate(o) == IsDefined(o) /\ o[1].text # ""

IsoDate(y, m, d, sec) == [text |-> "iso", y |-> y, m |-> m, d |-> d, sec |-> sec]
BadDate == [text |-> "bad", y |-> 0, m |-> 0, d |-> 0, sec |-> 0]
EmptyDate == [text |-> "", y |-> 0, m |-> 0, d |-> 0, sec |-> 0]

\* Days from 1970-01-01 to the civil date y-m-d (proleptic Gregorian calendar).
DaysFromCivil(y, m, d) ==
    LET yy == IF m <= 2 THEN y - 1 ELSE y
        era == yy \div 400
        yoe == yy - era * 400
        mp == IF m > 2 THEN m - 3 ELSE m + 9
        doy == (153 * mp + 2) \div 5 + d - 1
        doe == yoe * 365 + yoe \div 4 - yoe \div 100 + doy
    IN  era * 146097 + doe - 719468

\* new Date(str): a date-only ISO string is UTC midnight of that day; anything
\* else the model's strings hold is an Invalid Date.
NewDate(str) ==
    IF str.text = "iso"
    THEN Some(DaysFromCivil(str.y, str.m, str.d) * SecondsPerDay + str.sec)
    ELSE <<>>

\* new Date(field) for an optional date string: new Date(undefined) is an
\* Invalid Date too.
NewDateOf(o) == IF IsDefined(o) THEN NewDate(o[1]) ELSE <<>>

\* a > b and a < b on Dates: false as soon as one side is NaN.
DateGt(a, b) == IsDefined(a) /\ IsDefined(b) /\ a[1] > b[1]
DateLt(a, b) == IsDefined(a) /\ IsDefined(b) /\ a[1] < b[1]

Number(n) == [kind |-> "number", value |-> n]
Null == [kind |-> "null", value |-> 0]
NaN == [kind |-> "NaN", value |-> 0]

\* All sequences over S of length 0..n.
SeqsUpTo(S, n) == UNION {[1..k -> S] : k \in 0..n}

InventoryItem(id, category, quantity, costPrice, threshold, lastSold, created) ==
    [id |-> id, category |-> category, quantity |-> quantity,
     costPrice |-> costPrice, lowStockThreshold |-> threshold,
     lastSoldDate |-> lastSold, createdAt |-> created]

-----------------------------------------------------------------------------
(* Stock classifier *)

getItemStatus_noZeroRule(item) ==
    IF item.quantity <= OrNumber(item.lowStockThreshold, 0) THEN "low-stock"
    ELSE "in-stock"

getItemStatus(item) ==
    IF item.quantity = 0 THEN "out-of-stock"
    ELSE IF item.quantity <= OrNumber(item.lowStockThreshold, 0) THEN "low-stock"
    ELSE "in-stock"

\* The render evaluates getItemStatus for every item (the table's status
\* column, line 1738).
ClassifyItems ==
    /\ "status" \notin computed
    /\ stockStatuses' = [i \in 1..Len(items) |-> getItemStatus(items[i])]
    /\ computed' = computed \cup {"status"}
    /\ UNCHANGED <<items, now, ticks, deadStockItems, deadStockAt,
                   categoryValueData, totalInventoryValue,
                   stockHealthData, orderVars, tableVars,
                   sessionVars>>

\* acc[status] = (acc[status] || 0) + 1 on a statusCounts object: a function
\* whose domain is the set of keys assigned so far.
CountStatus_overwrite(acc, status) ==
    IF status \in DOMAIN acc THEN [acc EXCEPT ![status] = 1]
    ELSE acc @@ (status :> 1)

CountStatus(acc, status) ==
    IF status \in DOMAIN acc THEN [acc EXCEPT ![status] = acc[status] + 1]
    ELSE acc @@ (status :> 1)

\* items.reduce(..., {}), left to right.
RECURSIVE StatusCounts(_, _)
StatusCounts(its, acc) ==
    IF its = <<>> THEN acc
    ELSE StatusCounts(Tail(its), CountStatus(acc, getItemStatus(Head(its))))

\* statusCounts[key] || 0
CountOf(statusCounts, key) ==
    IF key \in DOMAIN statusCounts THEN statusCounts[key] ELSE 0

StockHealthData(its) ==
    LET statusCounts == StatusCounts(its, <<>>)
    IN  <<[name |-> "In Stock", count |-> CountOf(statusCounts, "in-stock")],
          [name |-> "Low Stock", count |-> CountOf(statusCounts, "low-stock")],
          [name |-> "Out of Stock", count |-> CountOf(statusCounts, "out-of-stock")]>>

\* The render evaluates the stockHealthData memo.
ComputeStockHealthData ==
    /\ "health" \notin computed
    /\ stockHealthData' = StockHealthData(items)
    /\ computed' = computed \cup {"health"}
    /\ UNCHANGED <<items, now, ticks, stockStatuses, deadStockItems, deadStockAt,
                   categoryValueData, totalInventoryValue, orderVars, tableVars,
                   sessionVars>>

StatusItems ==
    {InventoryItem("1", Some("Shirts"), q, Some(1), t, Undefined, Undefined) :
        q \in 0..MaxQuantity, t \in {Undefined} \cup {Some(n) : n \in 0..MaxThreshold}}

Now0 == DaysFromCivil(2024, 6, 1) * SecondsPerDay

InitStatus ==
    /\ items \in SeqsUpTo(StatusItems, MaxStatusItems)
    /\ now = Now0
    /\ ticks = 0
    /\ computed = {}
    /\ stockStatuses = <<>>
    /\ deadStockItems = <<>>
    /\ deadStockAt = Now0
    /\ categoryValueData = <<>>
    /\ totalInventoryValue = 0
    /\ stockHealthData = <<>>
    /\ SessionIdle
    /\ OrdersIdle
    /\ TableIdle

NextStatus == ClassifyItems \/ ComputeStockHealthData

SpecStatus == InitStatus /\ [][NextStatus]_vars

\* The threshold of an item as the claim reads it: a missing one counts as 0.
ThresholdOf(item) ==
    IF IsDefined(item.lowStockThreshold) THEN item.lowStockThreshold[1] ELSE 0

\* C1: for every item with non-negative integer quantity and threshold (a
\* missing threshold counting as 0) the classifier returns out-of-stock when
\* quantity = 0 whatever the threshold, low-stock when
\* 0 < quantity <= threshold, in-stock when quantity > threshold.
C1_StockClassifier ==
    "status" \in computed =>
        /\ Len(stockStatuses) = Len(items)
        /\ \A i \in 1..Len(items) :
            LET q == items[i].quantity
                t == ThresholdOf(items[i])
            IN  /\ stockStatuses[i] \in {"out-of-stock", "low-stock", "in-stock"}
                /\ (q = 0) => stockStatuses[i] = "out-of-stock"
                /\ (0 < q /\ q <= t) => stockStatuses[i] = "low-stock"
                /\ (q > t /\ q > 0) => stockStatuses[i] = "in-stock"

\* A collection classified with an out-of-stock item that has a positive
\* threshold and a low-stock item.
C1_Witness ==
    /\ "status" \in computed
    /\ \E i \in 1..Len(items) :
        /\ items[i].quantity = 0
        /\ ThresholdOf(items[i]) > 0
        /\ stockStatuses[i] = "out-of-stock"
    /\ \E i \in 1..Len(items) :
        /\ items[i].quantity > 0
        /\ stockStatuses[i] = "low-stock"

\* The items of the collection that the stock classifier maps to a status.
ItemsWithStatus(status) ==
    {i \in 1..Len(items) : getItemStatus(items[i]) = status}

\* C12: for every item collection, the empty one included, stockHealthData
\* holds exactly the three buckets In Stock, Low Stock and Out of Stock in
\* that order, each count is the number of items the stock classifier maps
\* to that status, and the three counts sum to the number of items.
C12_StatusCountFold ==
    "health" \in computed =>
        /\ Len(stockHealthData) = 3
        /\ stockHealthData[1].name = "In Stock"
        /\ stockHealthData[2].name = "Low Stock"
        /\ stockHealthData[3].name = "Out of Stock"
        /\ stockHealthData[1].count = Cardinality(ItemsWithStatus("in-stock"))
        /\ stockHealthData[2].count = Cardinality(ItemsWithStatus("low-stock"))
        /\ stockHealthData[3].count = Cardinality(ItemsWithStatus("out-of-stock"))
        /\ stockHealthData[1].count + stockHealthData[2].count
                + stockHealthData[3].count = Len(items)

\* The counts of a collection with two items of one status and an empty
\* bucket.
C12_Witness ==
    /\ "health" \in computed
    /\ Len(items) = 2
    /\ \E k \in 1..3 : stockHealthData[k].count = 2
    /\ \E k \in 1..3 : stockHealthData[k].count = 0

-----------------------------------------------------------------------------
(* Dead-stock detector *)

\* ninetyDaysAgo = new Date(currentDate.getTime() - 90 * 24 * 60 * 60 * 1000)
NinetyDaysAgo(currentDate) == currentDate - DeadStockDays * SecondsPerDay

IsDeadStock_noCreatedAtCheck(item, currentDate) ==
    LET ninetyDaysAgo == Some(NinetyDaysAgo(currentDate))
    IN  IF DateGt(NewDateOf(item.createdAt), ninetyDaysAgo) THEN FALSE
        ELSE IF ~TruthyDate(item.lastSoldDate) THEN TRUE
        ELSE DateLt(NewDateOf(item.lastSoldDate), ninetyDaysAgo)

IsDeadStock_noNewItemRule(item, currentDate) ==
    LET ninetyDaysAgo == Some(NinetyDaysAgo(currentDate))
    IN  IF ~TruthyDate(item.createdAt) THEN FALSE
        ELSE IF ~TruthyDate(item.lastSoldDate) THEN TRUE
        ELSE DateLt(NewDateOf(item.lastSoldDate), ninetyDaysAgo)

IsDeadStock_soldOnCutoff(item, currentDate) ==
    LET ninetyDaysAgo == Some(NinetyDaysAgo(currentDate))
    IN  IF ~TruthyDate(item.createdAt) THEN FALSE
        ELSE IF DateGt(NewDateOf(item.createdAt), ninetyDaysAgo) THEN FALSE
        ELSE IF ~TruthyDate(item.lastSoldDate) THEN TRUE
        ELSE ~DateGt(NewDateOf(item.lastSoldDate), ninetyDaysAgo)

IsDeadStock_createdBefore(item, currentDate) ==
    LET ninetyDaysAgo == Some(NinetyDaysAgo(currentDate))
    IN  IF ~TruthyDate(item.createdAt) THEN FALSE
        ELSE IF DateLt(NewDateOf(item.createdAt), ninetyDaysAgo) THEN FALSE
        ELSE IF ~TruthyDate(item.lastSoldDate) THEN TRUE
        ELSE DateLt(NewDateOf(item.lastSoldDate), ninetyDaysAgo)

\* The predicate of items.filter(...) in deadStockItems.
IsDeadStock(item, currentDate) ==
    LET ninetyDaysAgo == Some(NinetyDaysAgo(currentDate))
    IN  IF ~TruthyDate(item.createdAt) THEN FALSE
        ELSE IF DateGt(NewDateOf(item.createdAt), ninetyDaysAgo) THEN FALSE
        ELSE IF ~TruthyDate(item.lastSoldDate) THEN TRUE
        ELSE DateLt(NewDateOf(item.lastSoldDate), ninetyDaysAgo)

DaysSinceLastSold_createdFirst(item, currentDate) ==
    LET referenceDateStr ==
            IF TruthyDate(item.createdAt) THEN item.createdAt ELSE item.lastSoldDate
        referenceDate == NewDateOf(referenceDateStr)
    IN  IF ~TruthyDate(referenceDateStr) THEN Null
        ELSE IF ~IsDefined(referenceDate) THEN Null
        ELSE Number((currentDate - referenceDate[1]) \div SecondsPerDay)

DaysSinceLastSold_round(item, currentDate) ==
    LET referenceDateStr ==
            IF TruthyDate(item.lastSoldDate) THEN item.lastSoldDate ELSE item.createdAt
        referenceDate == NewDateOf(referenceDateStr)
    IN  IF ~TruthyDate(referenceDateStr) THEN Null
        ELSE IF ~IsDefined(referenceDate) THEN Null
        ELSE Number((currentDate - referenceDate[1] + SecondsPerDay \div 2)
                        \div SecondsPerDay)

DaysSinceLastSold_noNaNCheck(item, currentDate) ==
    LET referenceDateStr ==
            IF TruthyDate(item.lastSoldDate) THEN item.lastSoldDate ELSE item.createdAt
        referenceDate == NewDateOf(referenceDateStr)
    IN  IF ~TruthyDate(referenceDateStr) THEN Null
        ELSE IF ~IsDefined(referenceDate) THEN NaN
        ELSE Number((currentDate - referenceDate[1]) \div SecondsPerDay)

\* The daysSinceLastSold field of deadStockItems' map: Math.floor of the
\* difference in days (\div is the floor of the quotient).
DaysSinceLastSold(item, currentDate) ==
    LET referenceDateStr ==
            IF TruthyDate(item.lastSoldDate) THEN item.lastSoldDate ELSE item.createdAt
        referenceDate == NewDateOf(referenceDateStr)
    IN  IF ~TruthyDate(referenceDateStr) THEN Null
        ELSE IF ~IsDefined(referenceDate) THEN Null
        ELSE Number((currentDate - referenceDate[1]) \div SecondsPerDay)

\* One element of deadStockItems: the item with the two derived fields.
DeadStockItem(item, currentDate) ==
    [daysSinceLastSold |-> DaysSinceLastSold(item, currentDate),
     deadStockValue |-> item.quantity * OrNumber(item.costPrice, 0)] @@ item

\* items.filter(...).map(...) with currentDate = new Date().
DeadStockItems(its, currentDate) ==
    LET dead == SelectSeq(its, LAMBDA item : IsDeadStock(item, currentDate))
    IN  [j \in 1..Len(dead) |-> DeadStockItem(dead[j], currentDate)]

\* The render evaluates the deadStockItems memo; its dependency list is
\* [items], so it is evaluated once for a given collection and keeps the
\* currentDate it read.
ComputeDeadStockItems ==
    /\ "dead" \notin computed
    /\ deadStockItems' = DeadStockItems(items, now)
    /\ deadStockAt' = now
    /\ computed' = computed \cup {"dead"}
    /\ UNCHANGED <<items, now, ticks, stockStatuses, categoryValueData,
                   totalInventoryValue,
                   stockHealthData, orderVars, tableVars,
                   sessionVars>>

TickSeconds == 12 * 60 * 60

\* Time passes; nothing the component holds changes.
Tick ==
    /\ ticks < MaxTicks
    /\ now' = now + TickSeconds
    /\ ticks' = ticks + 1
    /\ UNCHANGED <<items, computed, stockStatuses, deadStockItems, deadStockAt,
                   categoryValueData, totalInventoryValue,
                   stockHealthData, orderVars, tableVars,
                   sessionVars>>

\* The date strings of the dead-stock specification: with now = 2024-06-01
\* the cutoff is 2024-03-03.
SampleDates ==
    {IsoDate(2023, 6, 1, 0), IsoDate(2024, 1, 1, 0), IsoDate(2024, 3, 3, 0),
     IsoDate(2024, 3, 4, 0), IsoDate(2024, 5, 20, 0)}

DateFields == {Undefined, Some(EmptyDate), Some(BadDate)} \cup {Some(d) : d \in SampleDates}

\* Midnight of 2024-06-01 in UTC, and in a zone five and a half hours ahead.
StartTimes == {Now0, Now0 - 11 * 30 * 60}

DeadItemLists ==
    UNION {{[i \in 1..k |->
                InventoryItem(ToString(i), Some("Shirts"), 2, Some(3), Some(1),
                              f[i][1], f[i][2])] :
            f \in [1..k -> DateFields \X DateFields]} : k \in 0..MaxDeadItems}

InitDead ==
    /\ items \in DeadItemLists
    /\ now \in StartTimes
    /\ ticks = 0
    /\ computed = {}
    /\ stockStatuses = <<>>
    /\ deadStockItems = <<>>
    /\ deadStockAt = now
    /\ categoryValueData = <<>>
    /\ totalInventoryValue = 0
    /\ stockHealthData = <<>>
    /\ SessionIdle
    /\ OrdersIdle
    /\ TableIdle

NextDead == ComputeDeadStockItems \/ Tick

SpecDead == InitDead /\ [][NextDead]_vars

\* The item of the collection is in the computed dead-stock list.
InDeadStock(item) == \E j \in 1..Len(deadStockItems) : deadStockItems[j].id = item.id

\* The cutoff of the computed list.
Cutoff == deadStockAt - DeadStockDays * SecondsPerDay

\* A field holds a parseable date; its instant.
ValidDate(o) == IsDefined(o) /\ o[1].text = "iso"
InstantOf(o) == DaysFromCivil(o[1].y, o[1].m, o[1].d) * SecondsPerDay + o[1].sec

\* A field is absent: undefined, or the empty string.
Absent(o) == ~IsDefined(o) \/ o[1].text = ""

\* C2: an item whose createdAt is missing is never classified as dead stock,
\* whatever its lastSoldDate and whatever the reference time.
C2_MissingCreatedAtNeverDead ==
    "dead" \in computed =>
        \A i \in 1..Len(items) :
            ~IsDefined(items[i].createdAt) => ~InDeadStock(items[i])

\* A computed list that leaves out an item without createdAt whose
\* lastSoldDate is missing too (the rule on lastSoldDate alone would keep it).
C2_Witness ==
    /\ "dead" \in computed
    /\ \E i \in 1..Len(items) :
        /\ ~IsDefined(items[i].createdAt)
        /\ ~IsDefined(items[i].lastSoldDate)
        /\ ~InDeadStock(items[i])

\* C3: with cutoff = now - 90 days, an item whose createdAt is newer than the
\* cutoff is never classified as dead stock, for every value of lastSoldDate.
C3_NewItemNeverDead ==
    "dead" \in computed =>
        \A i \in 1..Len(items) :
            (ValidDate(items[i].createdAt) /\ InstantOf(items[i].createdAt) > Cutoff)
                => ~InDeadStock(items[i])

\* A computed list that leaves out an item created after the cutoff whose
\* last sale is older than the cutoff.
C3_Witness ==
    /\ "dead" \in computed
    /\ \E i \in 1..Len(items) :
        /\ ValidDate(items[i].createdAt)
        /\ InstantOf(items[i].createdAt) > Cutoff
        /\ ValidDate(items[i].lastSoldDate)
        /\ InstantOf(items[i].lastSoldDate) < Cutoff
        /\ ~InDeadStock(items[i])

\* C4: an item whose createdAt is present and not newer than the cutoff is
\* dead stock if and only if lastSoldDate is absent (undefined or empty) or
\* lastSoldDate < cutoff.
C4_OldItemDeadIffNoRecentSale ==
    "dead" \in computed =>
        \A i \in 1..Len(items) :
            (ValidDate(items[i].createdAt) /\ InstantOf(items[i].createdAt) <= Cutoff)
                => (InDeadStock(items[i]) <=>
                        \/ Absent(items[i].lastSoldDate)
                        \/ /\ ValidDate(items[i].lastSoldDate)
                           /\ InstantOf(items[i].lastSoldDate) < Cutoff)

\* A computed list with an item created exactly on the cutoff: kept when it
\* was never sold, and one left out because its last sale is on the cutoff.
C4_Witness ==
    /\ "dead" \in computed
    /\ \E i \in 1..Len(items) :
        /\ ValidDate(items[i].createdAt)
        /\ InstantOf(items[i].createdAt) <= Cutoff
        /\ ValidDate(items[i].lastSoldDate)
        /\ InstantOf(items[i].lastSoldDate) = Cutoff
        /\ ~InDeadStock(items[i])

\* C5: the detector is monotonic in time: an item classified dead stock at
\* the reference time T of the computed list (its fields unchanged since) is
\* classified dead stock at the later reference time now.
C5_MonotonicInTime ==
    "dead" \in computed =>
        \A i \in 1..Len(items) :
            (InDeadStock(items[i]) /\ now >= deadStockAt) => IsDeadStock(items[i], now)

\* Time has advanced past the reference time of a list that holds an item.
C5_Witness ==
    /\ "dead" \in computed
    /\ now > deadStockAt
    /\ \E i \in 1..Len(items) : InDeadStock(items[i]) /\ IsDeadStock(items[i], now)

\* Whole days from instant t to the reference time of the computed list.
WholeDaysSince(t) == (deadStockAt - t) \div SecondsPerDay

\* The later of the two dates of an item, when both are parseable.
LaterInstant(item) ==
    IF InstantOf(item.lastSoldDate) > InstantOf(item.createdAt)
    THEN InstantOf(item.lastSoldDate)
    ELSE InstantOf(item.createdAt)

\* C6 as stated: for every item classified dead stock, daysSinceLastSold is
\* the number of whole days between now and the later of lastSoldDate and
\* createdAt (from createdAt when lastSoldDate is earlier).
C6_DaysFromLaterDate ==
    "dead" \in computed =>
        \A j \in 1..Len(deadStockItems) :
            LET e == deadStockItems[j]
            IN  (ValidDate(e.lastSoldDate) /\ ValidDate(e.createdAt))
                    => e.daysSinceLastSold = Number(WholeDaysSince(LaterInstant(e)))

\* C6 amended: for every item classified dead stock, daysSinceLastSold is the
\* number of whole days between now and lastSoldDate when lastSoldDate is
\* present, and between now and createdAt only when lastSoldDate is absent;
\* it is null when that date is unparseable.
C6_DaysFromLastSoldElseCreated ==
    "dead" \in computed =>
        \A j \in 1..Len(deadStockItems) :
            LET e == deadStockItems[j]
                ref == IF Absent(e.lastSoldDate) THEN e.createdAt ELSE e.lastSoldDate
            IN  e.daysSinceLastSold =
                    IF ValidDate(ref) THEN Number(WholeDaysSince(InstantOf(ref)))
                    ELSE Null

\* A dead-stock item sold before it was created: the days count from the sale.
C6_Witness ==
    /\ "dead" \in computed
    /\ \E j \in 1..Len(deadStockItems) :
        LET e == deadStockItems[j]
        IN  /\ ValidDate(e.lastSoldDate)
            /\ ValidDate(e.createdAt)
            /\ InstantOf(e.lastSoldDate) < InstantOf(e.createdAt)
            /\ e.daysSinceLastSold = Number(WholeDaysSince(InstantOf(e.lastSoldDate)))
            /\ e.daysSinceLastSold # Number(WholeDaysSince(InstantOf(e.createdAt)))

\* The item of the concrete case: createdAt = 2024-01-01, never sold.
IsConcreteCase(item) ==
    /\ item.createdAt = Some(IsoDate(2024, 1, 1, 0))
    /\ ~IsDefined(item.lastSoldDate)

\* The reference time of the computed list lies on 2024-06-01 (UTC).
OnJune1st == Now0 <= deadStockAt /\ deadStockAt < Now0 + SecondsPerDay

\* C7 as stated: the item with createdAt = 2024-01-01 and no lastSoldDate,
\* evaluated at now = 2024-06-01, is dead stock with daysSinceLastSold = 151.
C7_ConcreteCase151 ==
    ("dead" \in computed /\ OnJune1st) =>
        \A i \in 1..Len(items) :
            IsConcreteCase(items[i]) =>
                \E j \in 1..Len(deadStockItems) :
                    /\ deadStockItems[j].id = items[i].id
                    /\ deadStockItems[j].daysSinceLastSold = Number(151)

\* C7 amended: that item, evaluated at any instant of 2024-06-01 (UTC), is
\* dead stock and its daysSinceLastSold, derived from createdAt, equals 152
\* (2024 is a leap year).
C7_ConcreteCase152 ==
    ("dead" \in computed /\ OnJune1st) =>
        \A i \in 1..Len(items) :
            IsConcreteCase(items[i]) =>
                \E j \in 1..Len(deadStockItems) :
                    /\ deadStockItems[j].id = items[i].id
                    /\ deadStockItems[j].daysSinceLastSold = Number(152)

\* The concrete case computed at midnight of 2024-06-01.
C7_Witness ==
    /\ "dead" \in computed
    /\ deadStockAt = Now0
    /\ \E j \in 1..Len(deadStockItems) :
        /\ IsConcreteCase(deadStockItems[j])
        /\ deadStockItems[j].daysSinceLastSold = Number(152)

\* An item has an unparseable date string in one of its date fields.
HasBadDate(item) ==
    \/ IsDefined(item.lastSoldDate) /\ item.lastSoldDate[1].text = "bad"
    \/ IsDefined(item.createdAt) /\ item.createdAt[1].text = "bad"

\* C8: with an unparseable lastSoldDate or createdAt the computation is
\* defined (the render can evaluate it) and yields one entry per dead item,
\* and a dead item whose reference date is invalid has daysSinceLastSold
\* null, never a number and never NaN.
C8_BadDatesHandled ==
    /\ ("dead" \notin computed) => ENABLED ComputeDeadStockItems
    /\ "dead" \in computed =>
        /\ Len(deadStockItems) <= Len(items)
        /\ \A j \in 1..Len(deadStockItems) :
            LET e == deadStockItems[j]
                ref == IF Absent(e.lastSoldDate) THEN e.createdAt ELSE e.lastSoldDate
            IN  /\ e.daysSinceLastSold.kind \in {"number", "null"}
                /\ (HasBadDate(e) /\ ~ValidDate(ref)) => e.daysSinceLastSold = Null

\* A dead-stock item with an unparseable createdAt that was never sold.
C8_Witness ==
    /\ "dead" \in computed
    /\ \E j \in 1..Len(deadStockItems) :
        /\ deadStockItems[j].createdAt = Some(BadDate)
        /\ Absent(deadStockItems[j].lastSoldDate)
        /\ deadStockItems[j].daysSinceLastSold = Null

-----------------------------------------------------------------------------
(* Inventory aggregator: category values *)

\* (item.quantity || 0) * (item.costPrice || 0); quantity is a number, for
\* which q || 0 is q.
ItemValue(item) == item.quantity * OrNumber(item.costPrice, 0)

\* item.category || 'Uncategorized'
CategoryOf(item) == OrString(item.category, "Uncategorized")

\* acc[category] = (acc[category] || 0) + value. The object is kept as the
\* sequence of its <<key, value>> entries in insertion order, the order
\* Object.entries lists keys that are not array indices.
AddCategoryValue(acc, category, value) ==
    IF \E k \in 1..Len(acc) : acc[k][1] = category
    THEN [k \in 1..Len(acc) |->
            IF acc[k][1] = category THEN <<category, acc[k][2] + value>> ELSE acc[k]]
    ELSE Append(acc, <<category, value>>)

\* items.reduce((acc, item) => ..., {})
RECURSIVE CategoryValues(_, _)
CategoryValues(its, acc) ==
    IF its = <<>> THEN acc
    ELSE CategoryValues(Tail(its),
                        AddCategoryValue(acc, CategoryOf(Head(its)), ItemValue(Head(its))))

\* One step of the stable sort: e goes behind every entry the comparator
\* (a, b) => b[1] - a[1] does not put after it.
InsertByValue_ascending(sorted, e) ==
    LET p == Cardinality({k \in 1..Len(sorted) : sorted[k][2] <= e[2]})
    IN  SubSeq(sorted, 1, p) \o <<e>> \o SubSeq(sorted, p + 1, Len(sorted))

InsertByValue(sorted, e) ==
    LET p == Cardinality({k \in 1..Len(sorted) : sorted[k][2] >= e[2]})
    IN  SubSeq(sorted, 1, p) \o <<e>> \o SubSeq(sorted, p + 1, Len(sorted))

\* Object.entries(categoryValues).sort((a, b) => b[1] - a[1]); Array.sort is
\* stable.
RECURSIVE SortByValue(_, _)
SortByValue(entries, sorted) ==
    IF entries = <<>> THEN sorted
    ELSE SortByValue(Tail(entries), InsertByValue(sorted, Head(entries)))

\* entries.reduce((sum, [, value]) => sum + value, 0)
RECURSIVE SumValues(_)
SumValues(entries) ==
    IF entries = <<>> THEN 0 ELSE Head(entries)[2] + SumValues(Tail(entries))

Entry(name, value) == [name |-> name, value |-> value]

\* s.slice(from, to), both counted from 0 and clamped to the array.
Slice(s, from, to) ==
    LET last == IF to < Len(s) THEN to ELSE Len(s)
    IN  IF from >= last THEN <<>> ELSE SubSeq(s, from + 1, last)

FinalData_otherFromSeventh(sortedCategories) ==
    LET top5 == Slice(sortedCategories, 0, TopK)
        otherValue == SumValues(Slice(sortedCategories, TopK + 1, Len(sortedCategories)))
        finalData == [k \in 1..Len(top5) |-> Entry(top5[k][1], top5[k][2])]
    IN  IF otherValue > 0 THEN Append(finalData, Entry("Other", otherValue))
        ELSE finalData

\* top5, otherValue and finalData of categoryValueData.
FinalData(sortedCategories) ==
    LET top5 == Slice(sortedCategories, 0, TopK)
        otherValue == SumValues(Slice(sortedCategories, TopK, Len(sortedCategories)))
        finalData == [k \in 1..Len(top5) |-> Entry(top5[k][1], top5[k][2])]
    IN  IF otherValue > 0 THEN Append(finalData, Entry("Other", otherValue))
        ELSE finalData

CategoryValueData(its) == FinalData(SortByValue(CategoryValues(its, <<>>), <<>>))

\* items.reduce((total, item) => total + item.quantity * (item.costPrice || 0), 0)
RECURSIVE TotalInventoryValue(_)
TotalInventoryValue(its) ==
    IF its = <<>> THEN 0
    ELSE Head(its).quantity * OrNumber(Head(its).costPrice, 0)
            + TotalInventoryValue(Tail(its))

\* The render evaluates the memos in source order: categoryValueData first.
ComputeCategoryValueData ==
    /\ "category" \notin computed
    /\ categoryValueData' = CategoryValueData(items)
    /\ computed' = computed \cup {"category"}
    /\ UNCHANGED <<items, now, ticks, stockStatuses, deadStockItems, deadStockAt,
                   totalInventoryValue,
                   stockHealthData, orderVars, tableVars,
                   sessionVars>>

ComputeTotalInventoryValue ==
    /\ "category" \in computed
    /\ "total" \notin computed
    /\ totalInventoryValue' = TotalInventoryValue(items)
    /\ computed' = computed \cup {"total"}
    /\ UNCHANGED <<items, now, ticks, stockStatuses, deadStockItems, deadStockAt,
                   categoryValueData,
                   stockHealthData, orderVars, tableVars,
                   sessionVars>>

\* The collections of the aggregator specification are drawn from a
\* catalogue: position k fixes category and cost price, the collection holds
\* any subset of the positions, each with any quantity.
CatalogueCategories ==
    <<Some("Shirts"), Some("Pants"), Undefined, Some("Sarees"), Some(""),
      Some("Dresses"), Some("Sweaters"), Some("Kurtas"), Some("Shirts")>>

CatalogueCosts ==
    <<Some(2), Some(1), Some(2), Some(3), Some(1), Undefined, Some(2), Some(1), Some(1)>>

CatalogueItem(k, q) ==
    InventoryItem(ToString(k),
                  CatalogueCategories[((k - 1) % Len(CatalogueCategories)) + 1],
                  q,
                  CatalogueCosts[((k - 1) % Len(CatalogueCosts)) + 1],
                  Some(1), Undefined, Undefined)

\* choice[k] = 0 leaves position k out; choice[k] = q + 1 holds it with
\* quantity q.
RECURSIVE CatalogueList(_, _)
CatalogueList(choice, k) ==
    IF k > MaxCatItems THEN <<>>
    ELSE (IF choice[k] = 0 THEN <<>> ELSE <<CatalogueItem(k, choice[k] - 1)>>)
            \o CatalogueList(choice, k + 1)

CatItemLists ==
    {CatalogueList(choice, 1) : choice \in [1..MaxCatItems -> 0..(MaxCatQuantity + 1)]}

InitCategory ==
    /\ items \in CatItemLists
    /\ now = Now0
    /\ ticks = 0
    /\ computed = {}
    /\ stockStatuses = <<>>
    /\ deadStockItems = <<>>
    /\ deadStockAt = Now0
    /\ categoryValueData = <<>>
    /\ totalInventoryValue = 0
    /\ stockHealthData = <<>>
    /\ SessionIdle
    /\ OrdersIdle
    /\ TableIdle

NextCategory == ComputeCategoryValueData \/ ComputeTotalInventoryValue

SpecCategory == InitCategory /\ [][NextCategory]_vars

\* quantity x costPrice of an item, a missing cost price counting as 0.
ValueOf(item) ==
    IF IsDefined(item.costPrice) THEN item.quantity * item.costPrice[1] ELSE 0

\* Sum of f over the index set S.
RECURSIVE SumOver(_, _)
SumOver(S, f) ==
    IF S = {} THEN 0
    ELSE LET x == CHOOSE y \in S : TRUE IN f[x] + SumOver(S \ {x}, f)

\* The group an item belongs to: its category, 'Uncategorized' when the
\* category is missing or empty.
GroupOf(item) ==
    IF ~IsDefined(item.category) \/ item.category[1] = "" THEN "Uncategorized"
    ELSE item.category[1]

Groups == {GroupOf(items[i]) : i \in 1..Len(items)}

GroupValue(g) ==
    SumOver({i \in 1..Len(items) : GroupOf(items[i]) = g},
            [i \in 1..Len(items) |-> ValueOf(items[i])])

Listed == IF Cardinality(Groups) < TopK THEN Cardinality(Groups) ELSE TopK

ListedNames == {categoryValueData[k].name : k \in 1..Listed}

RestValue ==
    SumOver(Groups \ ListedNames, [g \in Groups \ ListedNames |-> GroupValue(g)])

\* C10: items are grouped by category, a missing or empty category counting
\* as 'Uncategorized'; the output lists at most the 5 groups of highest
\* summed value in descending value order, followed by a single 'Other'
\* entry holding the summed value of all remaining groups if and only if
\* that sum is > 0.
C10_FoldShape ==
    "category" \in computed =>
        /\ Len(categoryValueData) = Listed + (IF RestValue > 0 THEN 1 ELSE 0)
        /\ \A k \in 1..Listed :
            /\ categoryValueData[k].name \in Groups
            /\ categoryValueData[k].value = GroupValue(categoryValueData[k].name)
        /\ \A k, l \in 1..Listed :
            /\ (k # l) => categoryValueData[k].name # categoryValueData[l].name
            /\ (k < l) => categoryValueData[k].value >= categoryValueData[l].value
        /\ \A k \in 1..Listed : \A g \in Groups \ ListedNames :
            categoryValueData[k].value >= GroupValue(g)
        /\ (RestValue > 0) =>
            categoryValueData[Listed + 1] = Entry("Other", RestValue)

\* More than five groups, two items folded into 'Uncategorized', values that
\* are not all equal and a remainder that is > 0.
C10_Witness ==
    /\ "category" \in computed
    /\ Cardinality(Groups) > TopK
    /\ Cardinality({i \in 1..Len(items) : GroupOf(items[i]) = "Uncategorized"}) = 2
    /\ \E k \in 1..TopK : categoryValueData[k].name = "Uncategorized"
    /\ Len(categoryValueData) = TopK + 1
    /\ categoryValueData[1].value > categoryValueData[TopK].value
    /\ categoryValueData[TopK + 1] = Entry("Other", RestValue)

\* The collection in the opposite order: a permutation of it.
RECURSIVE Reverse(_)
Reverse(s) == IF s = <<>> THEN <<>> ELSE Reverse(Tail(s)) \o <<Head(s)>>

\* C11: the category value fold is deterministic under ties: a collection
\* and a permutation of it (here the collection in reverse order) give the
\* same output, the same groups among the top 5 in the same order, also
\* when several categories have equal value.
C11_PermutationSameFold ==
    "category" \in computed =>
        categoryValueData = CategoryValueData(Reverse(items))

-----------------------------------------------------------------------------
(* JavaScript strings: a string is a TLA+ string, a character a string of  *)
(* length 1.                                                               *)

CharAt(s, i) == SubSeq(s, i, i)

Digits == "0123456789"

\* \d
IsDigit(c) == \E i \in 1..Len(Digits) : CharAt(Digits, i) = c

DigitValue(c) == (CHOOSE i \in 1..Len(Digits) : CharAt(Digits, i) = c) - 1

\* \s, and what trim() removes
IsSpace(c) == c \in {" ", "\t", "\n", "\r"}

\* what . does not match
IsLineTerminator(c) == c \in {"\n", "\r"}

UpperCaseLetters == "ABCDEFGHIJKLMNOPQRSTUVWXYZ"
LowerCaseLetters == "abcdefghijklmnopqrstuvwxyz"

\* The lower-case letter of every upper-case letter.
LowerCaseOf ==
    [c \in {CharAt(UpperCaseLetters, i) : i \in 1..Len(UpperCaseLetters)} |->
        CharAt(LowerCaseLetters,
               CHOOSE i \in 1..Len(UpperCaseLetters) : CharAt(UpperCaseLetters, i) = c)]

LowerChar(c) == IF c \in DOMAIN LowerCaseOf THEN LowerCaseOf[c] ELSE c

\* s.toLowerCase()
RECURSIVE ToLowerCase(_)
ToLowerCase(s) ==
    IF s = "" THEN "" ELSE LowerChar(CharAt(s, 1)) \o ToLowerCase(Tail(s))

RECURSIVE TrimStart(_)
TrimStart(s) ==
    IF s # "" /\ IsSpace(CharAt(s, 1)) THEN TrimStart(Tail(s)) ELSE s

RECURSIVE TrimEnd(_)
TrimEnd(s) ==
    IF s # "" /\ IsSpace(CharAt(s, Len(s)))
    THEN TrimEnd(SubSeq(s, 1, Len(s) - 1)) ELSE s

\* s.trim()
Trim(s) == TrimEnd(TrimStart(s))

\* s.includes(t)
Includes(s, t) ==
    \E i \in 0..(Len(s) - Len(t)) : SubSeq(s, i + 1, i + Len(t)) = t

\* parseInt(ds, 10) of a string of decimal digits.
RECURSIVE ParseInt(_, _)
ParseInt(ds, acc) ==
    IF ds = "" THEN acc
    ELSE ParseInt(Tail(ds), acc * 10 + DigitValue(CharAt(ds, 1)))

\* The characters of a tuple joined into a string.
RECURSIVE Join(_)
Join(cs) == IF cs = <<>> THEN "" ELSE Head(cs) \o Join(Tail(cs))

\* All strings over the characters of alphabet of length 0..n.
StringsUpTo(alphabet, n) == {Join(cs) : cs \in SeqsUpTo(alphabet, n)}

\* a / b on numbers: a quotient is kept as numerator and denominator.
Divide(a, b) ==
    IF b # 0 THEN [kind |-> "number", num |-> a, den |-> b]
    ELSE IF a = 0 THEN [kind |-> "NaN", num |-> 0, den |-> 0]
    ELSE IF a > 0 THEN [kind |-> "Infinity", num |-> 0, den |-> 0]
    ELSE [kind |-> "-Infinity", num |-> 0, den |-> 0]

\* a || b for optional strings.
OrElse(a, b) == IF IsDefined(a) /\ a[1] # "" THEN a ELSE b

-----------------------------------------------------------------------------
(* Order normalizer: fetchAndSetOrders of OrderManagement.tsx *)

MaxItemStringLen == 6   \* length of the raw item strings drawn exhaustively

\* A raw order as the API returns it.
RawOrder(orderId, id, name, phone, rate, itemString, amount, status, date) ==
    [orderId |-> orderId, id |-> id,
     customer |-> [name |-> name, phone |-> phone],
     rate |-> rate, items |-> itemString, amount |-> amount,
     status |-> status, date |-> date]

\* The ways /^(\d+)\s+x\s+(.+)$/ splits s: d digits, w1 white-space
\* characters, the letter x, w2 white-space characters, a non-empty rest
\* without line terminator.
MatchSplits(s) ==
    {sp \in (1..Len(s)) \X (1..Len(s)) \X (1..Len(s)) :
        LET d == sp[1]
            w1 == sp[2]
            w2 == sp[3]
        IN  /\ d + w1 + 1 + w2 < Len(s)
            /\ \A i \in 1..d : IsDigit(CharAt(s, i))
            /\ \A i \in (d + 1)..(d + w1) : IsSpace(CharAt(s, i))
            /\ CharAt(s, d + w1 + 1) = "x"
            /\ \A i \in (d + w1 + 2)..(d + w1 + 1 + w2) : IsSpace(CharAt(s, i))
            /\ \A i \in (d + w1 + w2 + 2)..Len(s) : ~IsLineTerminator(CharAt(s, i))}

\* sp is tried before sq: every quantifier is greedy, the longest first.
TriedBefore(sp, sq) ==
    \/ sp[1] > sq[1]
    \/ sp[1] = sq[1] /\ sp[2] > sq[2]
    \/ sp[1] = sq[1] /\ sp[2] = sq[2] /\ sp[3] > sq[3]

\* s.match(/^(\d+)\s+x\s+(.+)$/): null, or the two captured groups of the
\* first split that succeeds.
Match(s) ==
    IF MatchSplits(s) = {} THEN Undefined
    ELSE LET sp == CHOOSE sp \in MatchSplits(s) :
                        \A sq \in MatchSplits(s) \ {sp} : TriedBefore(sp, sq)
         IN  Some(<<SubSeq(s, 1, sp[1]),
                    SubSeq(s, sp[1] + sp[2] + sp[3] + 2, Len(s))>>)

\* order.items || '1 x unknown'
ItemStringOf(order) == OrString(order.items, "1 x unknown")

ParsedQuantity(itemString) ==
    LET match == Match(itemString)
    IN  IF IsDefined(match) THEN ParseInt(match[1][1], 0) ELSE 1

ParsedName_noTrim(itemString) ==
    LET match == Match(itemString)
    IN  IF IsDefined(match) THEN match[1][2] ELSE itemString

ParsedName(itemString) ==
    LET match == Match(itemString)
    IN  IF IsDefined(match) THEN Trim(match[1][2]) ELSE itemString

\* The object the map callback returns (the fields grossAmount, discount,
\* discountString, profit and costPrice are copied as they are and left out).
FormatOrder(order) ==
    LET itemString == ItemStringOf(order)
        quantity == ParsedQuantity(itemString)
        itemName == ParsedName(itemString)
    IN  [id |-> OrElse(order.orderId, order.id),
         customerName |-> order.customer.name,
         customerPhone |-> order.customer.phone,
         rate |-> order.rate,
         items |-> <<[name |-> itemName, quantity |-> quantity,
                      price |-> Divide(order.amount, quantity)]>>,
         totalAmount |-> order.amount,
         status |-> ToLowerCase(OrString(order.status, "pending")),
         orderDate |-> order.date]

\* liveOrders.filter(Boolean).map(...): a null entry is <<>>.
RECURSIVE FormatOrders(_)
FormatOrders(live) ==
    IF live = <<>> THEN <<>>
    ELSE (IF IsDefined(Head(live)) THEN <<FormatOrder(Head(live)[1])>> ELSE <<>>)
            \o FormatOrders(Tail(live))

\* The comparator new Date(b.orderDate).getTime() - new Date(a.orderDate).getTime()
\* on parseable dates; the sort is stable.
InsertByDate(sorted, e) ==
    LET p == Cardinality({k \in 1..Len(sorted) :
                NewDate(sorted[k].orderDate)[1] >= NewDate(e.orderDate)[1]})
    IN  SubSeq(sorted, 1, p) \o <<e>> \o SubSeq(sorted, p + 1, Len(sorted))

RECURSIVE SortByDate(_, _)
SortByDate(formatted, sorted) ==
    IF formatted = <<>> THEN sorted
    ELSE SortByDate(Tail(formatted), InsertByDate(sorted, Head(formatted)))

\* fetchAndSetOrders: getOrdersData() has resolved to liveOrders.
FetchAndSetOrders ==
    /\ "orders" \notin computed
    /\ orders' = SortByDate(FormatOrders(liveOrders), <<>>)
    /\ computed' = computed \cup {"orders"}
    /\ UNCHANGED <<items, now, ticks, stockStatuses, stockHealthData,
                   deadStockItems, deadStockAt, categoryValueData,
                   totalInventoryValue, liveOrders, customerMap,
                   topCustomerEntry, tableVars,
                   sessionVars>>

ItemAlphabet == {"0", "3", " ", "x", "a"}

ItemStrings == StringsUpTo(ItemAlphabet, MaxItemStringLen)

\* Item strings of the collections that hold a second entry.
SampleItemStrings ==
    {"3 x Denim Jeans", "unknown", "", "0 x Shirt", "12 x  Tee ", "3x Tee", "3 X Tee"}

OrderOfInterest(itemString, amount) ==
    RawOrder(Some("ORD-001"), Undefined, Some("Priya"), Some("98"), 5,
             itemString, amount, Undefined, IsoDate(2024, 5, 20, 0))

\* A second entry of the response: nothing, a null, an older or a newer order.
Companions ==
    {<<>>,
     <<Undefined>>,
     <<Some(RawOrder(Undefined, Some("17"), Some("Ravi"), Undefined, 2,
                     Some("2 x Tee"), 4, Some("Completed"), IsoDate(2024, 1, 1, 0)))>>,
     <<Some(RawOrder(Undefined, Some("18"), Undefined, Some("97"), 2,
                     Some("Scarf"), 4, Some("PENDING"), IsoDate(2024, 5, 21, 0)))>>}

LiveOrderLists ==
    {<<Some(OrderOfInterest(Some(s), 7))>> : s \in ItemStrings}
    \cup {c \o <<Some(OrderOfInterest(f, a))>> :
            c \in Companions,
            f \in {Undefined} \cup {Some(s) : s \in SampleItemStrings},
            a \in {0, 7}}

InitOrders ==
    /\ items = <<>>
    /\ now = Now0
    /\ ticks = 0
    /\ computed = {}
    /\ stockStatuses = <<>>
    /\ deadStockItems = <<>>
    /\ deadStockAt = Now0
    /\ categoryValueData = <<>>
    /\ totalInventoryValue = 0
    /\ stockHealthData = <<>>
    /\ SessionIdle
    /\ liveOrders \in LiveOrderLists
    /\ orders = <<>>
    /\ customerMap = <<>>
    /\ topCustomerEntry = <<>>
    /\ TableIdle

NextOrders == FetchAndSetOrders

SpecOrders == InitOrders /\ [][NextOrders]_vars

\* The raw orders of the response, nulls left out.
RawOrders == {liveOrders[i][1] : i \in {j \in 1..Len(liveOrders) : IsDefined(liveOrders[j])}}

\* The normalised order that came from a raw order: the one with its id.
FormattedOf(raw) ==
    CHOOSE f \in {orders[k] : k \in 1..Len(orders)} : f.id = OrElse(raw.orderId, raw.id)

\* The number of leading decimal digits of s.
LeadingDigits(s) ==
    Cardinality({d \in 1..Len(s) : \A i \in 1..d : IsDigit(CharAt(s, i))})

\* The position of the first letter x of s, 0 when there is none.
FirstX(s) ==
    IF \E i \in 1..Len(s) : CharAt(s, i) = "x"
    THEN CHOOSE i \in 1..Len(s) :
            CharAt(s, i) = "x" /\ \A j \in 1..(i - 1) : CharAt(s, j) # "x"
    ELSE 0

\* s has the form digits, white space, x, white space, something.
HasQuantityForm(s) ==
    LET d == LeadingDigits(s)
        x == FirstX(s)
    IN  /\ d >= 1
        /\ x > d + 1
        /\ \A i \in (d + 1)..(x - 1) : IsSpace(CharAt(s, i))
        /\ Len(s) >= x + 2
        /\ IsSpace(CharAt(s, x + 1))

RECURSIVE Power10(_)
Power10(n) == IF n = 0 THEN 1 ELSE 10 * Power10(n - 1)

\* The value in base 10 of the leading digits of s.
LeadingInteger(s) ==
    LET d == LeadingDigits(s)
    IN  SumOver(1..d, [i \in 1..d |-> DigitValue(CharAt(s, i)) * Power10(d - i)])

\* t is s without its leading and trailing white space.
IsTrimmed(t, s) ==
    /\ t = "" \/ (~IsSpace(CharAt(t, 1)) /\ ~IsSpace(CharAt(t, Len(t))))
    /\ \E i \in 0..(Len(s) - Len(t)) :
        /\ SubSeq(s, i + 1, i + Len(t)) = t
        /\ \A j \in (1..i) \cup ((i + Len(t) + 1)..Len(s)) : IsSpace(CharAt(s, j))

\* The line item of a normalised order is what the claim gives for the raw
\* item string s.
ParsedAsClaimed(f, s) ==
    /\ Len(f.items) = 1
    /\ IF HasQuantityForm(s)
       THEN /\ f.items[1].quantity = LeadingInteger(s)
            /\ IsTrimmed(f.items[1].name, SubSeq(s, FirstX(s) + 1, Len(s)))
       ELSE /\ f.items[1].quantity = 1
            /\ f.items[1].name = s

\* C13 as stated: for every raw item string, the empty one included, the
\* line item has the leading integer as quantity and the trimmed remainder
\* as name when the string has the form digits x name, and quantity 1 and
\* the raw string as name otherwise; every order is normalised.
C13_EveryItemString ==
    "orders" \in computed =>
        /\ Len(orders) = Cardinality(RawOrders)
        /\ \A raw \in RawOrders :
            IsDefined(raw.items) => ParsedAsClaimed(FormattedOf(raw), raw.items[1])

\* C13: for every non-empty raw item string the line item has the leading
\* integer (base 10) as quantity and the trimmed remainder as name when the
\* string matches ^(\d+)\s+x\s+(.+)$, and quantity 1 and the raw string
\* unchanged as name otherwise; an empty or missing item string is read as
\* '1 x unknown', quantity 1 and name 'unknown'; every order of the response
\* is normalised, whatever its item string.
C13_Normalizer ==
    "orders" \in computed =>
        /\ Len(orders) = Cardinality(RawOrders)
        /\ \A raw \in RawOrders :
            IF IsDefined(raw.items) /\ raw.items[1] # ""
            THEN ParsedAsClaimed(FormattedOf(raw), raw.items[1])
            ELSE /\ Len(FormattedOf(raw).items) = 1
                 /\ FormattedOf(raw).items[1].quantity = 1
                 /\ FormattedOf(raw).items[1].name = "unknown"

\* A response normalised with '3 x Denim Jeans' read as 3 Denim Jeans next
\* to an order whose item string 'Scarf' does not match.
C13_Witness ==
    /\ "orders" \in computed
    /\ Len(orders) = 2
    /\ \E raw \in RawOrders : raw.items = Some("3 x Denim Jeans")
    /\ \E k \in 1..2 : /\ orders[k].items[1].quantity = 3
                       /\ orders[k].items[1].name = "Denim Jeans"
    /\ \E k \in 1..2 : /\ orders[k].items[1].quantity = 1
                       /\ orders[k].items[1].name = "Scarf"

\* C14: the unit price of the line item is totalAmount / quantity when the
\* parsed quantity is > 0; when the parsed quantity is 0 nothing is divided
\* by zero and the unit price is the rate of the order.
C14_DivisionGuard ==
    "orders" \in computed =>
        \A k \in 1..Len(orders) :
            LET line == orders[k].items[1]
            IN  /\ line.price.kind = "number"
                /\ (line.quantity > 0) =>
                    line.price.num * line.quantity = orders[k].totalAmount * line.price.den
                /\ (line.quantity = 0) =>
                    line.price.num = orders[k].rate * line.price.den

-----------------------------------------------------------------------------
(* Customer aggregator: customerMap, uniqueCustomers and topCustomerEntry  *)
(* of OrderManagement.tsx, computed by every render from orders            *)

MaxCustomerOrders == 2   \* orders of the aggregator specification

\* An order as the component holds it.
Order(id, customerName, customerPhone, totalAmount, status, orderDate) ==
    [id |-> id, customerName |-> customerName, customerPhone |-> customerPhone,
     rate |-> totalAmount,
     items |-> <<[name |-> "Tee", quantity |-> 1, price |-> Divide(totalAmount, 1)]>>,
     totalAmount |-> totalAmount, status |-> status, orderDate |-> orderDate]

\* An optional string as a condition: undefined and '' are falsy.
Truthy(o) == IsDefined(o) /\ o[1] # ""

\* ${o} in a template literal.
TemplateText(o) == IF IsDefined(o) THEN o[1] ELSE "undefined"

HasNameAndPhone_nameOnly(order) == Truthy(order.customerName)

\* order.customerName && order.customerPhone
HasNameAndPhone(order) == Truthy(order.customerName) /\ Truthy(order.customerPhone)

customerKey_noTrim(order) ==
    ToLowerCase(order.customerName[1]) \o ":" \o TemplateText(order.customerPhone)

customerKey(order) ==
    Trim(ToLowerCase(order.customerName[1])) \o ":" \o TemplateText(order.customerPhone)

\* The Map is a sequence of <<key, value>> in insertion order, which is the
\* order in which values() iterates.
HasKey(acc, key) == \E k \in 1..Len(acc) : acc[k][1] = key

\* One step of the reduce.
AddOrder(acc, order) ==
    IF ~HasNameAndPhone(order) THEN acc
    ELSE LET key == customerKey(order)
         IN  IF HasKey(acc, key)
             THEN [k \in 1..Len(acc) |->
                    IF acc[k][1] = key
                    THEN <<key, [acc[k][2] EXCEPT !.total = @ + order.totalAmount]>>
                    ELSE acc[k]]
             ELSE Append(acc, <<key, [name |-> order.customerName[1],
                                      total |-> order.totalAmount]>>)

RECURSIVE CustomerMap(_, _)
CustomerMap(os, acc) ==
    IF os = <<>> THEN acc ELSE CustomerMap(Tail(os), AddOrder(acc, Head(os)))

\* customerMap.size
uniqueCustomers == Len(customerMap)

\* [...customerMap.values()].reduce((max, current) =>
\*     (current.total > max.total) ? current : max, { name: 'N/A', total: 0 })
RECURSIVE TopCustomerEntry(_, _)
TopCustomerEntry(entries, max) ==
    IF entries = <<>> THEN max
    ELSE TopCustomerEntry(Tail(entries),
                          IF Head(entries)[2].total > max.total
                          THEN Head(entries)[2] ELSE max)

NoCustomer == [name |-> "N/A", total |-> 0]

\* A render of OrderManagement computes the aggregates from orders.
RenderAggregates ==
    /\ "customers" \notin computed
    /\ customerMap' = CustomerMap(orders, <<>>)
    /\ topCustomerEntry' = Some(TopCustomerEntry(CustomerMap(orders, <<>>), NoCustomer))
    /\ computed' = computed \cup {"customers"}
    /\ UNCHANGED <<items, now, ticks, stockStatuses, stockHealthData,
                   deadStockItems, deadStockAt, categoryValueData,
                   totalInventoryValue, liveOrders, orders, tableVars,
                   sessionVars>>

CustomerNames == {Undefined, Some(""), Some("Priya"), Some(" priya "), Some("Ravi")}

CustomerPhones == {Undefined, Some(""), Some("98"), Some("97")}

OrderAmounts == {0, 5}

\* The orders with the names, phones and amounts that choice gives.
CustomerOrders(choice) ==
    [i \in DOMAIN choice |->
        Order(Some(ToString(i)), choice[i][1], choice[i][2], choice[i][3], "pending",
              IsoDate(2024, 5, 20, 0))]

InitCustomers ==
    /\ items = <<>>
    /\ now = Now0
    /\ ticks = 0
    /\ computed = {}
    /\ stockStatuses = <<>>
    /\ deadStockItems = <<>>
    /\ deadStockAt = Now0
    /\ categoryValueData = <<>>
    /\ totalInventoryValue = 0
    /\ stockHealthData = <<>>
    /\ SessionIdle
    /\ liveOrders = <<>>
    /\ \E k \in 0..MaxCustomerOrders :
        \E choice \in [1..k -> CustomerNames \X CustomerPhones \X OrderAmounts] :
            orders = CustomerOrders(choice)
    /\ customerMap = <<>>
    /\ topCustomerEntry = <<>>
    /\ TableIdle

NextCustomers == RenderAggregates

SpecCustomers == InitCustomers /\ [][NextCustomers]_vars

\* The orders that carry a non-empty name and a non-empty phone.
Named == {i \in 1..Len(orders) :
            /\ IsDefined(orders[i].customerName) /\ orders[i].customerName[1] # ""
            /\ IsDefined(orders[i].customerPhone) /\ orders[i].customerPhone[1] # ""}

\* The identity key of a named order: lowercase(trim(name)) + ':' + phone.
IdentityKey(i) ==
    ToLowerCase(Trim(orders[i].customerName[1])) \o ":" \o orders[i].customerPhone[1]

\* The named orders of the customer of order i.
SameCustomer(i) == {j \in Named : IdentityKey(j) = IdentityKey(i)}

AmountOf == [i \in 1..Len(orders) |-> orders[i].totalAmount]

EntriesWithKey(key) == {k \in 1..Len(customerMap) : customerMap[k][1] = key}

\* C15: named orders whose names differ only in letter case or in leading
\* and trailing white space and whose phone is the same are folded into one
\* entry, with key lowercase(trim(name)) + ':' + phone; the total of the
\* entry is the sum of totalAmount of these orders and its display name is
\* the name of the first of them.
C15_CustomerIdentity ==
    "customers" \in computed =>
        \A i \in Named :
            /\ Cardinality(EntriesWithKey(IdentityKey(i))) = 1
            /\ \A k \in EntriesWithKey(IdentityKey(i)) :
                /\ customerMap[k][2].total = SumOver(SameCustomer(i), AmountOf)
                /\ \E j \in SameCustomer(i) :
                    /\ \A l \in SameCustomer(i) : j <= l
                    /\ customerMap[k][2].name = orders[j].customerName[1]

\* 'Priya' and ' priya ' with the same phone folded into one entry that
\* shows the first name and the sum of both amounts.
C15_Witness ==
    /\ "customers" \in computed
    /\ Len(orders) = 2
    /\ orders[1].customerName = Some("Priya")
    /\ orders[2].customerName = Some(" priya ")
    /\ Len(customerMap) = 1
    /\ customerMap[1][2] = [name |-> "Priya", total |-> 10]

EntryTotal == [k \in 1..Len(customerMap) |-> customerMap[k][2].total]

\* C16: an order with an empty or missing customer name, or an empty or
\* missing phone, contributes to no entry: every entry has the identity key
\* of a named order, the unique-customer count is the number of distinct
\* identity keys of the named orders, and the totals of all entries sum to
\* the sum of totalAmount over the named orders.
C16_Exclusion ==
    "customers" \in computed =>
        /\ \A k \in 1..Len(customerMap) :
            \E i \in Named : customerMap[k][1] = IdentityKey(i)
        /\ uniqueCustomers = Cardinality({IdentityKey(i) : i \in Named})
        /\ SumOver(1..Len(customerMap), EntryTotal) = SumOver(Named, AmountOf)

\* An order without phone next to a named order, both with a positive
\* amount: one entry, holding the amount of the named order only.
C16_Witness ==
    /\ "customers" \in computed
    /\ Len(orders) = 2
    /\ orders[1].customerName = Some("Ravi")
    /\ orders[1].customerPhone = Undefined
    /\ orders[1].totalAmount = 5
    /\ Named = {2}
    /\ uniqueCustomers = 1
    /\ customerMap[1][2].total = 5

\* C17: whenever the customer map is not empty the top customer is an entry
\* of the map with maximum total, the first such entry in iteration order
\* when several tie; the default (name 'N/A', total 0) is returned only when
\* the map is empty.
C17_TopCustomer ==
    "customers" \in computed =>
        IF customerMap = <<>> THEN topCustomerEntry = Some(NoCustomer)
        ELSE \E k \in 1..Len(customerMap) :
                /\ topCustomerEntry = Some(customerMap[k][2])
                /\ \A l \in 1..Len(customerMap) :
                    /\ customerMap[l][2].total <= customerMap[k][2].total
                    /\ (customerMap[l][2].total = customerMap[k][2].total) => k <= l

-----------------------------------------------------------------------------
(* Table processor: the processedItems memo of InventoryManagement.tsx     *)
(* (search, category filter, status filter, sort)                          *)

MaxTableItems == 2   \* items in a collection of the table specification

\* The characters of the model in the order of their code units.
CodeOrder == " -/0123456789:ABCDEFGHIJKLMNOPQRSTUVWXYZabcdefghijklmnopqrstuvwxyz"

CharCode ==
    [c \in {CharAt(CodeOrder, i) : i \in 1..Len(CodeOrder)} |->
        CHOOSE i \in 1..Len(CodeOrder) : CharAt(CodeOrder, i) = c]

\* a < b on strings: by code unit, a proper prefix first.
StringLess(a, b) ==
    \E k \in 0..(Len(b) - 1) :
        /\ k <= Len(a)
        /\ SubSeq(a, 1, k) = SubSeq(b, 1, k)
        /\ \/ k = Len(a)
           \/ CharCode[CharAt(a, k + 1)] < CharCode[CharAt(b, k + 1)]

\* The fields that may be undefined: the model keeps them as optionals.
OptionalFields ==
    {"category", "lowStockThreshold", "lastSoldDate", "createdAt",
     "id", "customerName", "customerPhone"}

\* The fields that hold a string, and the one that holds a date string.
StringFields == {"itemName", "category", "id", "customerName", "customerPhone", "status"}

\* record[key]
ValueAt(record, key) ==
    IF key \in OptionalFields THEN record[key] ELSE Some(record[key])

\* x < y on two defined values of the field key. Date strings of the ISO
\* form order as their instants do.
Less(key, x, y) ==
    IF key \in StringFields THEN StringLess(x, y)
    ELSE IF key = "orderDate" THEN NewDate(x)[1] < NewDate(y)[1]
    ELSE x < y

SortConfig(key, direction) == [key |-> key, direction |-> direction]

Compare_undefinedByDirection(a, b, config) ==
    LET aValue == ValueAt(a, config.key)
        bValue == ValueAt(b, config.key)
    IN  IF ~IsDefined(aValue) /\ ~IsDefined(bValue) THEN 0
        ELSE IF ~IsDefined(aValue) THEN (IF config.direction = "ascending" THEN 1 ELSE -1)
        ELSE IF ~IsDefined(bValue) THEN (IF config.direction = "ascending" THEN -1 ELSE 1)
        ELSE IF Less(config.key, aValue[1], bValue[1])
             THEN (IF config.direction = "ascending" THEN -1 ELSE 1)
        ELSE IF Less(config.key, bValue[1], aValue[1])
             THEN (IF config.direction = "ascending" THEN 1 ELSE -1)
        ELSE 0

\* The comparator of processedData.sort.
Compare(a, b, config) ==
    LET aValue == ValueAt(a, config.key)
        bValue == ValueAt(b, config.key)
    IN  IF ~IsDefined(aValue) /\ ~IsDefined(bValue) THEN 0
        ELSE IF ~IsDefined(aValue) THEN 1
        ELSE IF ~IsDefined(bValue) THEN -1
        ELSE IF Less(config.key, aValue[1], bValue[1])
             THEN (IF config.direction = "ascending" THEN -1 ELSE 1)
        ELSE IF Less(config.key, bValue[1], aValue[1])
             THEN (IF config.direction = "ascending" THEN 1 ELSE -1)
        ELSE 0

\* Array.prototype.sort is stable: e goes behind everything that does not
\* compare greater.
InsertBy(sorted, e, config) ==
    LET p == Cardinality({k \in 1..Len(sorted) : Compare(sorted[k], e, config) <= 0})
    IN  SubSeq(sorted, 1, p) \o <<e>> \o SubSeq(sorted, p + 1, Len(sorted))

RECURSIVE SortBy(_, _, _)
SortBy(data, sorted, config) ==
    IF data = <<>> THEN sorted
    ELSE SortBy(Tail(data), InsertBy(sorted, Head(data), config), config)

\* if (sortConfig !== null) processedData.sort(...)
Sorted(data, config) ==
    IF IsDefined(config) THEN SortBy(data, <<>>, config[1]) ELSE data

\* An inventory item with its name.
NamedItem(itemName, category, quantity, threshold) ==
    [itemName |-> itemName] @@
    InventoryItem(itemName, category, quantity, Some(1), threshold, Undefined, Undefined)

ProcessedItems(its, term, category, status, config) ==
    LET searchLower == ToLowerCase(term)
        searched ==
            IF term # ""
            THEN SelectSeq(its, LAMBDA item :
                    \/ Includes(ToLowerCase(item.itemName), searchLower)
                    \/ Includes(ToLowerCase(OrString(item.category, "")), searchLower))
            ELSE its
        inCategory ==
            IF category # "all"
            THEN SelectSeq(searched, LAMBDA item : item.category = Some(category))
            ELSE searched
        inStatus ==
            IF status # "all"
            THEN SelectSeq(inCategory, LAMBDA item : getItemStatus(item) = status)
            ELSE inCategory
    IN  Sorted(inStatus, config)

\* The render evaluates the processedItems memo.
ComputeProcessedItems ==
    /\ "processedItems" \notin computed
    /\ processedItems' =
        ProcessedItems(items, searchTerm, categoryFilter, statusFilter, sortConfig)
    /\ computed' = computed \cup {"processedItems"}
    /\ UNCHANGED <<items, now, ticks, stockStatuses, stockHealthData,
                   deadStockItems, deadStockAt, categoryValueData,
                   totalInventoryValue, orderVars, searchTerm, categoryFilter,
                   statusFilter, dateFilter, selectedDate, sortConfig,
                   processedOrders,
                   sessionVars>>

\* The items the collections of the table specification are drawn from.
TableCatalogue ==
    {NamedItem("Jeans", Some("Pants"), 0, Some(2)),
     NamedItem("Tee", Some("Shirts"), 2, Some(2)),
     NamedItem("tee shirt", Undefined, 5, Undefined),
     NamedItem("Kurta", Some("shirts"), 1, Undefined),
     NamedItem("Scarf", Some(""), 3, Some(5)),
     NamedItem("Belt", Some("Pants"), 9, Some(1))}

ItemSearchTerms == {"", "tee", "PANTS"}

ItemCategoryFilters == {"all", "Pants", "Shirts"}

ItemStatusFilters == {"all", "in-stock", "low-stock", "out-of-stock"}

ItemSortConfigs ==
    {<<>>} \cup
    {Some(SortConfig(key, direction)) :
        key \in {"category", "lowStockThreshold", "quantity"},
        direction \in {"ascending", "descending"}}

InitTable ==
    /\ items \in SeqsUpTo(TableCatalogue, MaxTableItems)
    /\ now = Now0
    /\ ticks = 0
    /\ computed = {}
    /\ stockStatuses = <<>>
    /\ deadStockItems = <<>>
    /\ deadStockAt = Now0
    /\ categoryValueData = <<>>
    /\ totalInventoryValue = 0
    /\ stockHealthData = <<>>
    /\ SessionIdle
    /\ OrdersIdle
    /\ searchTerm \in ItemSearchTerms
    /\ categoryFilter \in ItemCategoryFilters
    /\ statusFilter \in ItemStatusFilters
    /\ dateFilter = "all"
    /\ selectedDate = <<>>
    /\ sortConfig \in ItemSortConfigs
    /\ processedItems = <<>>
    /\ processedOrders = <<>>

NextTable == ComputeProcessedItems

SpecTable == InitTable /\ [][NextTable]_vars

\* The number of times x occurs in the sequence s.
Occurrences(s, x) == Cardinality({k \in 1..Len(s) : s[k] = x})

\* s and t hold the same records the same number of times.
SameRecords(s, t) ==
    /\ Len(s) = Len(t)
    /\ \A k \in 1..Len(s) : Occurrences(s, s[k]) = Occurrences(t, s[k])

\* C18: for every collection and every sort key, ascending and descending,
\* every record whose value for the sort key is undefined comes in the
\* output after every record whose value is defined.
C18_UndefinedLast ==
    ("processedItems" \in computed /\ IsDefined(sortConfig)) =>
        \A k, l \in 1..Len(processedItems) :
            (/\ ~IsDefined(ValueAt(processedItems[k], sortConfig[1].key))
             /\ IsDefined(ValueAt(processedItems[l], sortConfig[1].key))) => l < k

\* A collection sorted descending by category whose first item has no
\* category: it is last in the output.
C18_Witness ==
    /\ "processedItems" \in computed
    /\ sortConfig = Some(SortConfig("category", "descending"))
    /\ Len(items) = 2 /\ Len(processedItems) = 2
    /\ ~IsDefined(items[1].category)
    /\ IsDefined(items[2].category)
    /\ processedItems = <<items[2], items[1]>>

\* The search term is a case-insensitive part of the name or the category.
SearchSelects(item) ==
    \/ Includes(ToLowerCase(item.itemName), ToLowerCase(searchTerm))
    \/ /\ IsDefined(item.category)
       /\ Includes(ToLowerCase(item.category[1]), ToLowerCase(searchTerm))

\* The selection of the processed list: search, category filter and status
\* filter all hold.
ProcessedItemsSelection ==
    "processedItems" \in computed =>
        SameRecords(processedItems,
                    SelectSeq(items, LAMBDA item :
                        /\ SearchSelects(item)
                        /\ categoryFilter = "all" \/ item.category = Some(categoryFilter)
                        /\ statusFilter = "all" \/ statusFilter = getItemStatus(item)))

-----------------------------------------------------------------------------
(* Table processor of InventoryManagement1.tsx: enhancedInventoryItems and *)
(* its processedItems memo, whose status filter compares the label of the  *)
(* status with the value of the filter button                              *)

\* s.replace(pattern, replacement) with a string pattern: the first
\* occurrence only.
ReplaceFirst(s, pattern, replacement) ==
    IF Includes(s, pattern)
    THEN LET i == CHOOSE i \in 0..(Len(s) - Len(pattern)) :
                    /\ SubSeq(s, i + 1, i + Len(pattern)) = pattern
                    /\ \A j \in 0..(i - 1) : SubSeq(s, j + 1, j + Len(pattern)) # pattern
         IN  SubSeq(s, 1, i) \o replacement \o SubSeq(s, i + Len(pattern) + 1, Len(s))
    ELSE s

\* stockStatus of enhancedInventoryItems; category and lowStockThreshold are
\* required fields of this component's items.
stockStatus(item) ==
    IF item.quantity = 0 THEN "Out of Stock"
    ELSE IF item.quantity <= item.lowStockThreshold[1] THEN "Low Stock"
    ELSE "In Stock"

EnhancedItem(item) ==
    [totalValue |-> item.quantity * item.costPrice[1],
     stockStatus |-> stockStatus(item)] @@ item

enhancedInventoryItems(its) == [i \in 1..Len(its) |-> EnhancedItem(its[i])]

\* item.stockStatus.toLowerCase().replace(' ', '')
StatusFilterText(label) == ReplaceFirst(ToLowerCase(label), " ", "")

ProcessedItems1(enhanced, term, category, status, config) ==
    LET searchLower == ToLowerCase(term)
        filtered ==
            SelectSeq(enhanced, LAMBDA item :
                LET matchesSearch ==
                        \/ Includes(ToLowerCase(item.itemName), searchLower)
                        \/ Includes(ToLowerCase(item.category[1]), searchLower)
                    matchesCategory ==
                        category = "all" \/ item.category = Some(category)
                    matchesStatus ==
                        status = "all" \/ StatusFilterText(item.stockStatus) = status
                IN  matchesSearch /\ matchesCategory /\ matchesStatus)
    IN  Sorted(filtered, config)

\* The render of InventoryManagement1 evaluates both memos.
ComputeProcessedItems1 ==
    /\ "processedItems1" \notin computed
    /\ processedItems' =
        ProcessedItems1(enhancedInventoryItems(items), searchTerm, categoryFilter,
                        statusFilter, sortConfig)
    /\ computed' = computed \cup {"processedItems1"}
    /\ UNCHANGED <<items, now, ticks, stockStatuses, stockHealthData,
                   deadStockItems, deadStockAt, categoryValueData,
                   totalInventoryValue, orderVars, searchTerm, categoryFilter,
                   statusFilter, dateFilter, selectedDate, sortConfig,
                   processedOrders,
                   sessionVars>>

Table1Catalogue ==
    {NamedItem("Jeans", Some("Pants"), 0, Some(2)),
     NamedItem("Tee", Some("Shirts"), 2, Some(2)),
     NamedItem("Kurta", Some("shirts"), 1, Some(5)),
     NamedItem("Belt", Some("Pants"), 9, Some(1))}

\* The values of the status filter pills of InventoryManagement1.
Item1StatusFilters == {"all", "instock", "lowstock", "outofstock"}

Item1SortConfigs ==
    {<<>>, Some(SortConfig("quantity", "descending")),
     Some(SortConfig("itemName", "ascending"))}

InitTable1 ==
    /\ items \in SeqsUpTo(Table1Catalogue, MaxTableItems)
    /\ now = Now0
    /\ ticks = 0
    /\ computed = {}
    /\ stockStatuses = <<>>
    /\ deadStockItems = <<>>
    /\ deadStockAt = Now0
    /\ categoryValueData = <<>>
    /\ totalInventoryValue = 0
    /\ stockHealthData = <<>>
    /\ SessionIdle
    /\ OrdersIdle
    /\ searchTerm \in ItemSearchTerms
    /\ categoryFilter \in ItemCategoryFilters
    /\ statusFilter \in Item1StatusFilters
    /\ dateFilter = "all"
    /\ selectedDate = <<>>
    /\ sortConfig \in Item1SortConfigs
    /\ processedItems = <<>>
    /\ processedOrders = <<>>

NextTable1 == ComputeProcessedItems1

SpecTable1 == InitTable1 /\ [][NextTable1]_vars

\* The value of the filter pill that stands for a classified status.
PillOf(status) ==
    CASE status = "in-stock" -> "instock"
      [] status = "low-stock" -> "lowstock"
      [] status = "out-of-stock" -> "outofstock"

\* C20: the processed inventory list holds exactly the items for which (a)
\* the search term is a case-insensitive part of the item name or of the
\* category, (b) the category filter is 'all' or the item's category and
\* (c) the status filter is 'all' or stands for the item's classified stock
\* status; the three conditions are a conjunction, so the order in which
\* they are applied does not matter.
C20_Selection ==
    "processedItems1" \in computed =>
        SameRecords(processedItems,
                    SelectSeq(enhancedInventoryItems(items), LAMBDA item :
                        /\ SearchSelects(item)
                        /\ categoryFilter = "all" \/ item.category = Some(categoryFilter)
                        /\ statusFilter = "all" \/ statusFilter = PillOf(getItemStatus(item))))

-----------------------------------------------------------------------------
(* Table processor of OrderManagement.tsx: the processedOrders memo (date  *)
(* filter, search, status filter, sort). Local time is taken to be UTC.    *)

MaxTableOrders == 2   \* orders in a collection of the order table specification

\* The calendar day an instant falls on, counted from 1970-01-01.
DayOf(t) == t \div SecondsPerDay

\* new Date(now.getFullYear(), now.getMonth(), now.getDate())
Today(n) == DayOf(n) * SecondsPerDay

\* getDay(): 0 is Sunday; 1970-01-01 was a Thursday.
getDay(t) == (DayOf(t) + 4) % 7

\* today.getDate() - today.getDay() days into the month of today.
StartOfWeek(n) == Today(n) - getDay(Today(n)) * SecondsPerDay

MonthStarts == {DaysFromCivil(y, m, 1) : y \in 2023..2025, m \in 1..12}

\* new Date(now.getFullYear(), now.getMonth(), 1)
StartOfMonth(n) ==
    SecondsPerDay * (CHOOSE d \in MonthStarts :
                        /\ d <= DayOf(n)
                        /\ \A e \in MonthStarts : e <= DayOf(n) => e <= d)

\* a.toDateString() === b.toDateString() with b a valid Date: an Invalid
\* Date prints as 'Invalid Date'.
SameDateString(a, b) == IsDefined(a) /\ DayOf(a[1]) = DayOf(b)

\* a >= b on Dates, b valid: false when a is an Invalid Date.
DateGe(a, b) == IsDefined(a) /\ a[1] >= b

\* value?.toLowerCase().includes(searchLower): undefined, which is falsy,
\* when value is undefined.
OptionalIncludes(value, searchLower) ==
    IsDefined(value) /\ Includes(ToLowerCase(value[1]), searchLower)

ProcessedOrders(os, n, dFilter, selected, term, status, config) ==
    LET today == Today(n)
        inDate ==
            IF dFilter = "today"
            THEN SelectSeq(os, LAMBDA order : SameDateString(NewDate(order.orderDate), today))
            ELSE IF dFilter = "week"
            THEN SelectSeq(os, LAMBDA order : DateGe(NewDate(order.orderDate), StartOfWeek(n)))
            ELSE IF dFilter = "month"
            THEN SelectSeq(os, LAMBDA order : DateGe(NewDate(order.orderDate), StartOfMonth(n)))
            ELSE IF dFilter = "custom" /\ IsDefined(selected)
            THEN SelectSeq(os, LAMBDA order :
                    SameDateString(NewDate(order.orderDate), selected[1]))
            ELSE os
        searchLower == ToLowerCase(term)
        filtered ==
            SelectSeq(inDate, LAMBDA order :
                LET matchesSearch ==
                        \/ OptionalIncludes(order.customerName, searchLower)
                        \/ OptionalIncludes(order.id, searchLower)
                    matchesStatus == status = "all" \/ order.status = status
                IN  matchesSearch /\ matchesStatus)
    IN  Sorted(filtered, config)

\* The render evaluates the processedOrders memo.
ComputeProcessedOrders ==
    /\ "processedOrders" \notin computed
    /\ processedOrders' =
        ProcessedOrders(orders, now, dateFilter, selectedDate, searchTerm,
                        statusFilter, sortConfig)
    /\ computed' = computed \cup {"processedOrders"}
    /\ UNCHANGED <<items, now, ticks, stockStatuses, stockHealthData,
                   deadStockItems, deadStockAt, categoryValueData,
                   totalInventoryValue, orderVars, searchTerm, categoryFilter,
                   statusFilter, dateFilter, selectedDate, sortConfig,
                   processedItems,
                   sessionVars>>

\* The orders the collections of the order table specification are drawn
\* from; now is Saturday 2024-06-01.
OrderCatalogue ==
    {Order(Some("ORD-001"), Some("Priya"), Some("98"), 5, "pending", IsoDate(2024, 6, 1, 0)),
     Order(Undefined, Some("Ravi"), Some("97"), 3, "completed", IsoDate(2024, 5, 28, 0)),
     Order(Some("ORD-003"), Undefined, Undefined, 4, "pending", IsoDate(2024, 5, 20, 0)),
     Order(Undefined, Undefined, Some("96"), 2, "completed", IsoDate(2024, 6, 1, 3600))}

OrderSearchTerms == {"", "pri", "ORD"}

OrderStatusFilters == {"all", "pending"}

\* dateFilter and selectedDate.
OrderDateFilters ==
    {<<"all", <<>>>>, <<"today", <<>>>>, <<"week", <<>>>>, <<"month", <<>>>>,
     <<"custom", <<>>>>,
     <<"custom", Some(DaysFromCivil(2024, 5, 28) * SecondsPerDay)>>}

OrderSortConfigs ==
    {<<>>, Some(SortConfig("orderDate", "descending")),
     Some(SortConfig("customerName", "ascending"))}

InitOrderTable ==
    /\ items = <<>>
    /\ now = Now0
    /\ ticks = 0
    /\ computed = {}
    /\ stockStatuses = <<>>
    /\ deadStockItems = <<>>
    /\ deadStockAt = Now0
    /\ categoryValueData = <<>>
    /\ totalInventoryValue = 0
    /\ stockHealthData = <<>>
    /\ SessionIdle
    /\ liveOrders = <<>>
    /\ orders \in SeqsUpTo(OrderCatalogue, MaxTableOrders)
    /\ customerMap = <<>>
    /\ topCustomerEntry = <<>>
    /\ searchTerm \in OrderSearchTerms
    /\ categoryFilter = "all"
    /\ statusFilter \in OrderStatusFilters
    /\ \E d \in OrderDateFilters : dateFilter = d[1] /\ selectedDate = d[2]
    /\ sortConfig \in OrderSortConfigs
    /\ processedItems = <<>>
    /\ processedOrders = <<>>

NextOrderTable == ComputeProcessedOrders

SpecOrderTable == InitOrderTable /\ [][NextOrderTable]_vars

\* C19: with an empty search term and every filter set to 'all' the
\* processed collection holds exactly the records of the source collection,
\* nothing dropped and nothing added, also when the searchable fields of a
\* record (customer name, id) are missing.
C19_RoundTrip ==
    (/\ "processedOrders" \in computed
     /\ searchTerm = ""
     /\ statusFilter = "all"
     /\ dateFilter = "all") => SameRecords(processedOrders, orders)

(***************************************************************************)
(* Derived views and the collection they read                              *)
(*   InventoryManagement.tsx: processedItems (lines 1296-1337) and, in     *)
(*   CustomerManagement, topCustomersChartData (lines 2563-2571).          *)
(***************************************************************************)
MaxChartCustomers == 3   \* customers held by CustomerManagement

\* The derived metrics before any render.
MetricsIdle ==
    /\ items = <<>>
    /\ now = Now0
    /\ ticks = 0
    /\ computed = {}
    /\ stockStatuses = <<>>
    /\ stockHealthData = <<>>
    /\ deadStockItems = <<>>
    /\ deadStockAt = Now0
    /\ categoryValueData = <<>>
    /\ totalInventoryValue = 0

\* The fields of a Customer that topCustomersChartData reads.
Customer(name, totalSpend) == [name |-> name, totalSpend |-> totalSpend]

\* One step of the stable sort with (a, b) => b.totalSpend - a.totalSpend: c
\* goes behind every element whose totalSpend is not smaller.
InsertBySpend(sorted, c) ==
    LET k == Cardinality({i \in 1..Len(sorted) : sorted[i].totalSpend >= c.totalSpend})
    IN SubSeq(sorted, 1, k) \o <<c>> \o SubSeq(sorted, k + 1, Len(sorted))

RECURSIVE SortBySpend(_, _)
SortBySpend(list, sorted) ==
    IF list = <<>> THEN sorted
    ELSE SortBySpend(Tail(list), InsertBySpend(sorted, Head(list)))

TopCustomers == 5     \* .slice(0, 5)
ChartNameLength == 10 \* customer.name.length > 10, substring(0, 10)

\* customer.name.length > 10 ? customer.name.substring(0, 10) + '...' : customer.name
ChartName(name) ==
    IF Len(name) > ChartNameLength
    THEN SubSeq(name, 1, ChartNameLength) \o "..."
    ELSE name

ChartPoint(customer) ==
    [name |-> ChartName(customer.name), revenue |-> customer.totalSpend]

\* useMemo topCustomersChartData: customers.sort(...) sorts the array held in
\* state in place and returns it; slice and map then work on copies.
ComputeTopCustomersChartData ==
    /\ "topCustomersChartData" \notin computed
    /\ computed' = computed \cup {"topCustomersChartData"}
    /\ LET sorted == SortBySpend(customers, <<>>)
           top == Slice(sorted, 0, TopCustomers)
       IN /\ customers' = sorted
          /\ topCustomersChartData' = [i \in 1..Len(top) |-> ChartPoint(top[i])]
    /\ UNCHANGED <<items, now, ticks, stockStatuses, stockHealthData,
                   deadStockItems, deadStockAt, categoryValueData,
                   totalInventoryValue, orderVars, tableVars, sortRequests,
                   inventoryVars, requestVars, dashboardVars, customerVars,
                 portalVars,
                   authVars>>

ChartCatalogue ==
    {Customer("Priya", 5), Customer("Ravi", 9), Customer("Meenakshi Sundaram", 5)}

ViewSortConfigs ==
    {<<>>, Some(SortConfig("quantity", "descending"))}

InitViews ==
    /\ items \in SeqsUpTo(TableCatalogue, MaxTableItems)
    /\ now = Now0
    /\ ticks = 0
    /\ computed = {}
    /\ stockStatuses = <<>>
    /\ stockHealthData = <<>>
    /\ deadStockItems = <<>>
    /\ deadStockAt = Now0
    /\ categoryValueData = <<>>
    /\ totalInventoryValue = 0
    /\ OrdersIdle
    /\ searchTerm = ""
    /\ categoryFilter = "all"
    /\ statusFilter = "all"
    /\ dateFilter = "all"
    /\ selectedDate = <<>>
    /\ sortConfig \in ViewSortConfigs
    /\ processedItems = <<>>
    /\ processedOrders = <<>>
    /\ customers \in SeqsUpTo(ChartCatalogue, MaxChartCustomers)
    /\ topCustomersChartData = <<>>
    /\ sortRequests = <<>>
    /\ InventoryIdle
    /\ RequestsIdle
    /\ DashboardIdle
    /\ CustomerIdle
    /\ PortalIdle
    /\ AuthIdle

NextViews == ComputeProcessedItems \/ ComputeTopCustomersChartData

SpecViews == InitViews /\ [][NextViews]_vars

\* C21: computing a derived view (the processed table, the top-5 customers
\* chart series) leaves the source collection held in state with the same
\* records in the same order.
C21_SourceUnchanged ==
    [][items' = items /\ customers' = customers]_vars

(***************************************************************************)
(* Sort toggle                                                             *)
(*   requestSort of InventoryManagement.tsx (lines 1276-1282); the         *)
(*   requestSort of OrderManagement.tsx (lines 134-140) has the same body  *)
(*   over the keys of an Order.                                            *)
(***************************************************************************)
MaxSortRequests == 3   \* calls of requestSort in one behaviour

\* The columns whose header calls requestSort: lines 1710-1723 for the
\* inventory table, OrderManagement.tsx lines 717-751 for the order table.
SortKeys == {"itemName", "quantity", "costPrice", "totalAmount", "orderDate"}

SortDirections == {"ascending", "descending"}

NextDirection_ascending(config, key) == "ascending"

\* let direction = 'ascending'; if (sortConfig && sortConfig.key === key &&
\* sortConfig.direction === 'ascending') direction = 'descending'
NextDirection(config, key) ==
    IF /\ config # <<>>
       /\ config[1].key = key
       /\ config[1].direction = "ascending"
    THEN "descending"
    ELSE "ascending"

requestSort(key) ==
    /\ Len(sortRequests) < MaxSortRequests
    /\ sortConfig' = Some(SortConfig(key, NextDirection(sortConfig, key)))
    /\ sortRequests' = Append(sortRequests, key)
    /\ UNCHANGED <<metricVars, orderVars, searchTerm, categoryFilter,
                   statusFilter, dateFilter, selectedDate, processedItems,
                   processedOrders, chartVars, inventoryVars, requestVars,
                   dashboardVars, customerVars,
                 portalVars, authVars>>

\* Any sort configuration, null included.
AnySortConfig ==
    {<<>>} \cup {Some(SortConfig(key, direction)) :
                    key \in SortKeys, direction \in SortDirections}

InitSort ==
    /\ MetricsIdle
    /\ OrdersIdle
    /\ searchTerm = ""
    /\ categoryFilter = "all"
    /\ statusFilter = "all"
    /\ dateFilter = "all"
    /\ selectedDate = <<>>
    /\ sortConfig \in AnySortConfig
    /\ processedItems = <<>>
    /\ processedOrders = <<>>
    /\ SessionIdle

NextSort == \E key \in SortKeys : requestSort(key)

SpecSort == InitSort /\ [][NextSort]_vars

\* The key of the latest requestSort call.
LastRequested(requests) == requests[Len(requests)]

MaxRefreshes == 2   \* values refreshTrigger reaches

\* An item as the server returns it; the handlers read its id only.
ServerItem(id) ==
    InventoryItem(id, Some("Shirts"), 1, Some(1), Undefined, Undefined, Undefined)

\* What getInventoryData() can resolve to.
ServerCollections ==
    {<<>>, <<ServerItem("1")>>, <<ServerItem("1"), ServerItem("2")>>}

\* The first run of the effect is waiting for getInventoryData().
InventoryMounted ==
    /\ items = <<>>
    /\ isLoading = TRUE
    /\ refreshTrigger = 0
    /\ loads = {0}
    /\ upload = "none"
    /\ selectedItem = <<>>
    /\ isDeleteModalOpen = FALSE
    /\ deletes = {}

\* What no handler of InventoryManagement touches.
inventoryFrame ==
    <<now, ticks, computed, stockStatuses, stockHealthData, deadStockItems,
      deadStockAt, categoryValueData, totalInventoryValue, orderVars,
      tableVars, chartVars, sortRequests, requestVars, dashboardVars,
      customerVars, portalVars, authVars>>

\* loadData: getInventoryData() resolved; setItems(data), finally
\* setIsLoading(false).
LoadDataSucceeds(load, response) ==
    /\ load \in loads
    /\ loads' = loads \ {load}
    /\ items' = response
    /\ isLoading' = FALSE
    /\ UNCHANGED <<refreshTrigger, upload, selectedItem, isDeleteModalOpen,
                   deletes, inventoryFrame>>

\* loadData: getInventoryData() rejected; the catch logs, finally
\* setIsLoading(false).
LoadDataFails(load) ==
    /\ load \in loads
    /\ loads' = loads \ {load}
    /\ isLoading' = FALSE
    /\ UNCHANGED <<items, refreshTrigger, upload, selectedItem,
                   isDeleteModalOpen, deletes, inventoryFrame>>

\* handleFileSelectAndUpload up to the await, a file being chosen.
HandleFileSelectAndUpload ==
    /\ isLoading = FALSE
    /\ refreshTrigger < MaxRefreshes
    /\ isLoading' = TRUE
    /\ upload' = "pending"
    /\ UNCHANGED <<items, refreshTrigger, loads, selectedItem,
                   isDeleteModalOpen, deletes, inventoryFrame>>

\* uploadInventoryCsv resolved: alert, setRefreshTrigger(t => t + 1), and the
\* effect runs again: setIsLoading(true), getInventoryData() is awaited.
UploadSucceeds ==
    /\ upload = "pending"
    /\ upload' = "succeeded"
    /\ refreshTrigger' = refreshTrigger + 1
    /\ loads' = loads \cup {refreshTrigger + 1}
    /\ isLoading' = TRUE
    /\ UNCHANGED <<items, selectedItem, isDeleteModalOpen, deletes,
                   inventoryFrame>>

\* uploadInventoryCsv rejected: the catch alerts, finally clears the file
\* input; no state of the component is set.
UploadFails ==
    /\ upload = "pending"
    /\ upload' = "failed"
    /\ UNCHANGED <<items, isLoading, refreshTrigger, loads, selectedItem,
                   isDeleteModalOpen, deletes, inventoryFrame>>

HandleOpenDeleteModal(item) ==
    /\ isLoading = FALSE
    /\ selectedItem' = Some(item)
    /\ isDeleteModalOpen' = TRUE
    /\ UNCHANGED <<items, isLoading, refreshTrigger, loads, upload, deletes,
                   inventoryFrame>>

HandleCloseDeleteModal ==
    /\ isLoading = FALSE
    /\ isDeleteModalOpen = TRUE
    /\ isDeleteModalOpen' = FALSE
    /\ selectedItem' = <<>>
    /\ UNCHANGED <<items, isLoading, refreshTrigger, loads, upload, deletes,
                   inventoryFrame>>

\* handleDeleteItem up to the await: the call keeps the selectedItem of the
\* render it was made in.
HandleDeleteItem ==
    /\ isLoading = FALSE
    /\ isDeleteModalOpen = TRUE
    /\ selectedItem # <<>>
    /\ selectedItem[1].id \notin deletes
    /\ deletes' = deletes \cup {selectedItem[1].id}
    /\ UNCHANGED <<items, isLoading, refreshTrigger, loads, upload,
                   selectedItem, isDeleteModalOpen, inventoryFrame>>

WithoutItem_all(prevItems, id) == <<>>

\* prevItems.filter(item => item.id !== selectedItem.id)
WithoutItem(prevItems, id) ==
    SelectSeq(prevItems, LAMBDA item : item.id # id)

\* deleteInventoryItem resolved: the item is filtered out of the latest list
\* and handleCloseDeleteModal() runs.
DeleteItemSucceeds(id) ==
    /\ id \in deletes
    /\ deletes' = deletes \ {id}
    /\ items' = WithoutItem(items, id)
    /\ isDeleteModalOpen' = FALSE
    /\ selectedItem' = <<>>
    /\ UNCHANGED <<isLoading, refreshTrigger, loads, upload, inventoryFrame>>

\* deleteInventoryItem rejected: the catch logs.
DeleteItemFails(id) ==
    /\ id \in deletes
    /\ deletes' = deletes \ {id}
    /\ UNCHANGED <<items, isLoading, refreshTrigger, loads, upload,
                   selectedItem, isDeleteModalOpen, inventoryFrame>>

InitInventory ==
    /\ now = Now0
    /\ ticks = 0
    /\ computed = {}
    /\ stockStatuses = <<>>
    /\ stockHealthData = <<>>
    /\ deadStockItems = <<>>
    /\ deadStockAt = Now0
    /\ categoryValueData = <<>>
    /\ totalInventoryValue = 0
    /\ OrdersIdle
    /\ TableIdle
    /\ ChartIdle
    /\ sortRequests = <<>>
    /\ InventoryMounted
    /\ RequestsIdle
    /\ DashboardIdle
    /\ CustomerIdle
    /\ PortalIdle
    /\ AuthIdle

LoadDataCompletes ==
    \E load \in loads :
        \/ \E response \in ServerCollections : LoadDataSucceeds(load, response)
        \/ LoadDataFails(load)

NextInventory ==
    \/ \E load \in loads, response \in ServerCollections :
            LoadDataSucceeds(load, response)
    \/ \E load \in loads : LoadDataFails(load)
    \/ HandleFileSelectAndUpload
    \/ UploadSucceeds
    \/ UploadFails
    \/ \E i \in 1..Len(items) : HandleOpenDeleteModal(items[i])
    \/ HandleCloseDeleteModal
    \/ HandleDeleteItem
    \/ \E id \in deletes : DeleteItemSucceeds(id)
    \/ \E id \in deletes : DeleteItemFails(id)

SpecInventory == InitInventory /\ [][NextInventory]_vars

\* The server answers every request: a pending getInventoryData(), upload or
\* delete request is resolved or rejected in the end.
InventoryFairness ==
    /\ WF_vars(LoadDataCompletes)
    /\ WF_vars(UploadSucceeds \/ UploadFails)
    /\ WF_vars(\E id \in deletes : DeleteItemSucceeds(id) \/ DeleteItemFails(id))

SpecInventoryLive == SpecInventory /\ InventoryFairness

\* C23: after a fetch of the inventory collection fails, loading is cleared
\* and the item collection is empty: the items of an earlier successful fetch
\* are not what the component shows after the failed one.
C23_FailureIsNoData ==
    [][(\E load \in loads : LoadDataFails(load))
          => (isLoading' = FALSE /\ items' = <<>>)]_vars

\* C26: after a CSV upload started by handleFileSelectAndUpload completes,
\* with success or with failure, isLoading eventually becomes false again.
C26_LoadingEnds ==
    (upload \in {"succeeded", "failed"}) ~> (isLoading = FALSE)

\* The ids of the records of a list.
Ids(list) == {list[i].id : i \in 1..Len(list)}

\* C27: handleDeleteItem removes the selected item and closes the delete
\* modal only after the delete request succeeded; a failed request leaves the
\* item list, the selected item and the open state of the modal unchanged; no
\* item other than the selected one is removed.
C27_DeleteAfterConfirm ==
    [][/\ HandleDeleteItem
            => UNCHANGED <<items, selectedItem, isDeleteModalOpen>>
       /\ (\E id \in deletes : DeleteItemFails(id))
            => UNCHANGED <<items, selectedItem, isDeleteModalOpen>>
       /\ \A id \in deletes : DeleteItemSucceeds(id)
            => /\ id \notin Ids(items')
               /\ Ids(items) \ Ids(items') \subseteq {id}
               /\ Len(items') = Len(items) - (IF id \in Ids(items) THEN 1 ELSE 0)
               /\ isDeleteModalOpen' = FALSE
               /\ selectedItem' = <<>>
       /\ (loads' = loads /\ items' # items)
            => \E id \in deletes : DeleteItemSucceeds(id)]_vars

\* Item 1 of a collection of two was deleted: only item 2 is left, the modal
\* is closed and no request is pending.
C27_Witness ==
    /\ items = <<ServerItem("2")>>
    /\ deletes = {}
    /\ isDeleteModalOpen = FALSE
    /\ selectedItem = <<>>

(***************************************************************************)
(* Optimistic status change and delete of OrderManagement.tsx              *)
(*   handleStatusChange (lines 267-282), handleDeleteOrder (101-111).      *)
(*   Each handler is split at its await; a request in flight keeps what    *)
(*   the call captured: orderId, newStatus and originalOrders.             *)
(***************************************************************************)
MaxStatusRequests == 2   \* handleStatusChange calls awaiting the server

\* Two of the five options of the status select (lines 789-793).
StatusOptions == {"pending", "completed"}

StatusOrder(id, status) ==
    Order(Some(id), Some("Priya"), Some("98"), 5, status, IsoDate(2024, 6, 1, 0))

WithStatus_all(prevOrders, orderId, newStatus) ==
    [k \in 1..Len(prevOrders) |-> [prevOrders[k] EXCEPT !.status = newStatus]]

\* prevOrders.map(order => order.id === orderId ? {...order, status: newStatus} : order)
WithStatus(prevOrders, orderId, newStatus) ==
    [k \in 1..Len(prevOrders) |->
        IF prevOrders[k].id = orderId
        THEN [prevOrders[k] EXCEPT !.status = newStatus]
        ELSE prevOrders[k]]

StatusRequest(orderId, newStatus, originalOrders) ==
    [orderId |-> orderId, newStatus |-> newStatus,
     originalOrders |-> originalOrders]

\* What no handler of this section touches.
requestFrame ==
    <<metricVars, liveOrders, customerMap, topCustomerEntry, tableVars,
      chartVars, sortRequests, inventoryVars, dashboardVars, customerVars,
                 portalVars,
      authVars>>

\* handleStatusChange up to the await: the select of a row fires with another
\* option than the one shown.
HandleStatusChange(orderId, newStatus) ==
    /\ Cardinality(statusRequests) < MaxStatusRequests
    /\ \E k \in 1..Len(orders) :
            orders[k].id = orderId /\ orders[k].status # newStatus
    /\ StatusRequest(orderId, newStatus, orders) \notin statusRequests
    /\ orders' = WithStatus(orders, orderId, newStatus)
    /\ statusRequests' =
            statusRequests \cup {StatusRequest(orderId, newStatus, orders)}
    /\ UNCHANGED <<deleteRequests, requestFrame>>

\* updateOrderStatus resolved.
StatusChangeSucceeds(request) ==
    /\ request \in statusRequests
    /\ statusRequests' = statusRequests \ {request}
    /\ UNCHANGED <<orders, deleteRequests, requestFrame>>

\* updateOrderStatus rejected: alert, setOrders(originalOrders).
StatusChangeFails(request) ==
    /\ request \in statusRequests
    /\ statusRequests' = statusRequests \ {request}
    /\ orders' = request.originalOrders
    /\ UNCHANGED <<deleteRequests, requestFrame>>

\* handleDeleteOrder up to the await, window.confirm being accepted.
HandleDeleteOrder(orderIdToDelete) ==
    /\ orderIdToDelete \notin deleteRequests
    /\ deleteRequests' = deleteRequests \cup {orderIdToDelete}
    /\ UNCHANGED <<orders, statusRequests, requestFrame>>

\* prevOrders.filter(order => order.id !== orderIdToDelete)
WithoutOrder(prevOrders, orderIdToDelete) ==
    SelectSeq(prevOrders, LAMBDA order : order.id # orderIdToDelete)

\* deleteOrder resolved.
DeleteOrderSucceeds(orderIdToDelete) ==
    /\ orderIdToDelete \in deleteRequests
    /\ deleteRequests' = deleteRequests \ {orderIdToDelete}
    /\ orders' = WithoutOrder(orders, orderIdToDelete)
    /\ UNCHANGED <<statusRequests, requestFrame>>

\* deleteOrder rejected: alert.
DeleteOrderFails(orderIdToDelete) ==
    /\ orderIdToDelete \in deleteRequests
    /\ deleteRequests' = deleteRequests \ {orderIdToDelete}
    /\ UNCHANGED <<orders, statusRequests, requestFrame>>

OrderIds(list) == {list[k].id : k \in 1..Len(list)}

InitOrderStatus ==
    /\ MetricsIdle
    /\ liveOrders = <<>>
    /\ \E s1 \in StatusOptions, s2 \in StatusOptions :
            orders = <<StatusOrder("ORD-001", s1), StatusOrder("ORD-002", s2)>>
    /\ customerMap = <<>>
    /\ topCustomerEntry = <<>>
    /\ TableIdle
    /\ SessionIdle

NextOrderStatus ==
    \/ \E orderId \in OrderIds(orders), newStatus \in StatusOptions :
            HandleStatusChange(orderId, newStatus)
    \/ \E request \in statusRequests : StatusChangeSucceeds(request)
    \/ \E request \in statusRequests : StatusChangeFails(request)
    \/ \E orderId \in OrderIds(orders) : HandleDeleteOrder(orderId)
    \/ \E orderId \in deleteRequests : DeleteOrderSucceeds(orderId)
    \/ \E orderId \in deleteRequests : DeleteOrderFails(orderId)

SpecOrderStatus == InitOrderStatus /\ [][NextOrderStatus]_vars

\* The records of a list that carry the id, in list order.
OrdersWithId(list, id) == SelectSeq(list, LAMBDA order : order.id = id)

\* C24: handleStatusChange applies the new status to the matching order
\* before the server replies and leaves every other order unchanged; when the
\* request fails and nothing else touched the list meanwhile, the list is
\* again the list before the change.
C24_OptimisticStatus ==
    [][/\ \A orderId \in OrderIds(orders), newStatus \in StatusOptions :
            HandleStatusChange(orderId, newStatus)
                => /\ Len(orders') = Len(orders)
                   /\ \A k \in 1..Len(orders) :
                        IF orders[k].id = orderId
                        THEN orders'[k] = [orders[k] EXCEPT !.status = newStatus]
                        ELSE orders'[k] = orders[k]
       /\ \A request \in statusRequests :
            (/\ StatusChangeFails(request)
             /\ orders = WithStatus(request.originalOrders, request.orderId,
                                    request.newStatus))
                => orders' = request.originalOrders]_vars

\* A status change is in flight: the list already shows the new status.
C24_Witness ==
    \E request \in statusRequests :
        /\ orders # request.originalOrders
        /\ \E k \in 1..Len(orders) :
                /\ orders[k].id = request.orderId
                /\ orders[k].status = request.newStatus
                /\ request.originalOrders[k].status # request.newStatus

\* C25: when the status update of order A fails after a status update or a
\* deletion of another order B was applied in the meantime, the rollback
\* restores only A: what the list holds for B is the same after the rollback.
C25_RollbackIsolation ==
    [][\A request \in statusRequests :
            StatusChangeFails(request)
                => \A id \in (OrderIds(orders) \cup OrderIds(orders'))
                                \ {request.orderId} :
                        OrdersWithId(orders', id) = OrdersWithId(orders, id)]_vars

(***************************************************************************)
(* Period fetches                                                          *)
(*   Dashboard.tsx: the loadData effect on [selectedPeriod] (lines         *)
(*   130-156); the period buttons (line 250) are rendered only when        *)
(*   isLoading is false, error is null and data is set (lines 207-234).    *)
(*   InventoryManagement.tsx, CustomerManagement: the fetch effect on      *)
(*   [periodFilter, refreshTrigger] (lines 2447-2456), handleSaveCustomer  *)
(*   (2461-2469); the period buttons (line 2759) and the modals are        *)
(*   rendered only when isLoading is false (line 2653).                    *)
(*   A response is represented by the period it was requested for.  An     *)
(*   effect runs in the step that changes one of its dependencies and,     *)
(*   for the mount, in the initial state.                                  *)
(***************************************************************************)
MaxFetches == 2           \* fetches Dashboard starts in one behaviour
MaxCustomerFetches == 4   \* fetches CustomerManagement starts

\* Two of the five keys of periodLabels (Dashboard.tsx lines 158-164).
TimePeriods == {"today", "week"}

\* Two of the four periods of CustomerManagement (line 2756).
CustomerPeriods == {"all", "week"}

\* What fetchCustomers can resolve to: data.customers.
CustomerResponses ==
    {<<Customer("Priya", 5)>>, <<Customer("Priya", 5), Customer("Ravi", 9)>>}

Fetch(id, period) == [id |-> id, period |-> period]

\* What no action of this section touches.
periodFrame ==
    <<metricVars, orderVars, tableVars, topCustomersChartData, sortRequests,
      inventoryVars, requestVars, portalVars, authVars>>

\* setSelectedPeriod(period) from a period button, and the effect that
\* follows: setIsLoading(true), setError(null), the fetch is awaited.
SetSelectedPeriod(period) ==
    /\ dashboardIsLoading = FALSE
    /\ error = <<>>
    /\ dashboardData # <<>>
    /\ period # selectedPeriod
    /\ fetchCount < MaxFetches
    /\ selectedPeriod' = period
    /\ dashboardIsLoading' = TRUE
    /\ fetches' = fetches \cup {Fetch(fetchCount + 1, period)}
    /\ fetchCount' = fetchCount + 1
    /\ UNCHANGED <<dashboardData, error, customers, customerVars, periodFrame>>

\* fetchDashboardData resolved: setData(dashboardData), finally
\* setIsLoading(false).
FetchDashboardSucceeds(fetch) ==
    /\ fetch \in fetches
    /\ fetches' = fetches \ {fetch}
    /\ dashboardData' = Some([period |-> fetch.period])
    /\ dashboardIsLoading' = FALSE
    /\ UNCHANGED <<selectedPeriod, error, fetchCount, customers, customerVars,
                   periodFrame>>

\* fetchDashboardData rejected: setError(...), finally setIsLoading(false).
FetchDashboardFails(fetch) ==
    /\ fetch \in fetches
    /\ fetches' = fetches \ {fetch}
    /\ error' = Some("Failed to load dashboard data")
    /\ dashboardIsLoading' = FALSE
    /\ UNCHANGED <<selectedPeriod, dashboardData, fetchCount, customers,
                   customerVars, periodFrame>>

\* setPeriodFilter(period) from a period button, and the effect that follows:
\* setIsLoading(true), fetchCustomers(periodFilter) is awaited.
SetPeriodFilter(period) ==
    /\ customerIsLoading = FALSE
    /\ period # periodFilter
    /\ customerFetchCount + customerSaves < MaxCustomerFetches
    /\ periodFilter' = period
    /\ customerIsLoading' = TRUE
    /\ customerFetches' =
            customerFetches \cup {Fetch(customerFetchCount + 1, period)}
    /\ customerFetchCount' = customerFetchCount + 1
    /\ UNCHANGED <<customers, customerSaves, customersFor, dashboardVars,
                   periodFrame>>

\* handleSaveCustomer up to the await: the modal calls onSave; the modal can
\* be closed and opened again while createCustomer is awaited.
HandleSaveCustomer ==
    /\ customerIsLoading = FALSE
    /\ customerFetchCount + customerSaves < MaxCustomerFetches
    /\ customerSaves' = customerSaves + 1
    /\ UNCHANGED <<customers, periodFilter, customerIsLoading,
                   customerFetches, customerFetchCount, customersFor,
                   dashboardVars, periodFrame>>

\* createCustomer resolved: setRefreshTrigger(t => t + 1) and the effect that
\* follows, with the period filter of that render.
SaveCustomerSucceeds ==
    /\ customerSaves > 0
    /\ customerSaves' = customerSaves - 1
    /\ customerIsLoading' = TRUE
    /\ customerFetches' =
            customerFetches \cup {Fetch(customerFetchCount + 1, periodFilter)}
    /\ customerFetchCount' = customerFetchCount + 1
    /\ UNCHANGED <<customers, periodFilter, customersFor, dashboardVars,
                   periodFrame>>

\* createCustomer rejected: the catch logs.
SaveCustomerFails ==
    /\ customerSaves > 0
    /\ customerSaves' = customerSaves - 1
    /\ UNCHANGED <<customers, periodFilter, customerIsLoading,
                   customerFetches, customerFetchCount, customersFor,
                   dashboardVars, periodFrame>>

\* fetchCustomers resolved: setCustomers(data.customers), finally
\* setIsLoading(false).
FetchCustomersSucceeds(fetch, response) ==
    /\ fetch \in customerFetches
    /\ customerFetches' = customerFetches \ {fetch}
    /\ customers' = response
    /\ customersFor' = Some(fetch.period)
    /\ customerIsLoading' = FALSE
    /\ UNCHANGED <<periodFilter, customerFetchCount, customerSaves,
                   dashboardVars, periodFrame>>

\* fetchCustomers rejected: the catch logs, finally setIsLoading(false).
FetchCustomersFails(fetch) ==
    /\ fetch \in customerFetches
    /\ customerFetches' = customerFetches \ {fetch}
    /\ customerIsLoading' = FALSE
    /\ UNCHANGED <<customers, periodFilter, customerFetchCount, customerSaves,
                   customersFor, dashboardVars, periodFrame>>

\* Both components are mounted and their first fetch is awaited.
InitPeriod ==
    /\ MetricsIdle
    /\ OrdersIdle
    /\ TableIdle
    /\ ChartIdle
    /\ sortRequests = <<>>
    /\ InventoryIdle
    /\ RequestsIdle
    /\ selectedPeriod = "today"
    /\ dashboardData = <<>>
    /\ error = <<>>
    /\ dashboardIsLoading = TRUE
    /\ fetches = {Fetch(1, "today")}
    /\ fetchCount = 1
    /\ periodFilter = "all"
    /\ customerIsLoading = TRUE
    /\ customerFetches = {Fetch(1, "all")}
    /\ customerFetchCount = 1
    /\ customerSaves = 0
    /\ customersFor = <<>>
    /\ PortalIdle
    /\ AuthIdle

NextPeriod ==
    \/ \E period \in TimePeriods : SetSelectedPeriod(period)
    \/ \E fetch \in fetches : FetchDashboardSucceeds(fetch)
    \/ \E fetch \in fetches : FetchDashboardFails(fetch)
    \/ \E period \in CustomerPeriods : SetPeriodFilter(period)
    \/ HandleSaveCustomer
    \/ SaveCustomerSucceeds
    \/ SaveCustomerFails
    \/ \E fetch \in customerFetches, response \in CustomerResponses :
            FetchCustomersSucceeds(fetch, response)
    \/ \E fetch \in customerFetches : FetchCustomersFails(fetch)

SpecPeriod == InitPeriod /\ [][NextPeriod]_vars

\* C28: when the period was changed while a fetch for an earlier period was
\* in flight, the response that arrives last leaves the data of the selected
\* period in state, in whatever order the responses arrive.
C28_PeriodConsistency ==
    [][/\ (/\ \E fetch \in fetches : FetchDashboardSucceeds(fetch)
           /\ fetches' = {})
            => dashboardData' = Some([period |-> selectedPeriod'])
       /\ (/\ \E fetch \in customerFetches, response \in CustomerResponses :
                    FetchCustomersSucceeds(fetch, response)
           /\ customerFetches' = {})
            => customersFor' = Some(periodFilter')]_vars

(***************************************************************************)
(* Scroll lock of Portal.tsx (lines 4-21)                                  *)
(*   The effect of a Portal instance runs when the instance mounts, its    *)
(*   cleanup when it unmounts; originalOverflow lives in the closure of    *)
(*   the instance.                                                         *)
(***************************************************************************)
MaxPortals == 3   \* Portal instances

PortalIds == 1..MaxPortals

\* Values document.body.style.overflow has before any Portal mounts.
OverflowValues == {"", "visible", "auto", "scroll"}

PortalMounted(p) == portals[p] # <<>>

\* What no Portal touches.
portalFrame ==
    <<metricVars, orderVars, tableVars, chartVars, sortRequests,
      inventoryVars, requestVars, dashboardVars, customerVars, authVars>>

\* The effect: setMounted(true), originalOverflow is read, overflow = 'hidden'.
MountPortal(p) ==
    /\ ~PortalMounted(p)
    /\ portals' = [portals EXCEPT ![p] = Some(overflow)]
    /\ overflow' = "hidden"
    /\ UNCHANGED <<overflowBefore, portalFrame>>

\* The cleanup: setMounted(false), overflow = originalOverflow.
UnmountPortal(p) ==
    /\ PortalMounted(p)
    /\ overflow' = portals[p][1]
    /\ portals' = [portals EXCEPT ![p] = <<>>]
    /\ UNCHANGED <<overflowBefore, portalFrame>>

InitPortal ==
    /\ MetricsIdle
    /\ OrdersIdle
    /\ TableIdle
    /\ ChartIdle
    /\ sortRequests = <<>>
    /\ InventoryIdle
    /\ RequestsIdle
    /\ DashboardIdle
    /\ CustomerIdle
    /\ overflow \in OverflowValues
    /\ overflowBefore = overflow
    /\ portals = [p \in PortalIds |-> <<>>]
    /\ AuthIdle

NextPortal ==
    \/ \E p \in PortalIds : MountPortal(p)
    \/ \E p \in PortalIds : UnmountPortal(p)

SpecPortal == InitPortal /\ [][NextPortal]_vars

\* C29: for every interleaving of mounts and unmounts, body overflow is
\* 'hidden' while at least one Portal is mounted, and once every Portal has
\* unmounted it is the value it had before the first Portal mounted.
C29_ScrollLock ==
    /\ (\E p \in PortalIds : PortalMounted(p)) => overflow = "hidden"
    /\ (\A p \in PortalIds : ~PortalMounted(p)) => overflow = overflowBefore

(***************************************************************************)
(* Auth session of AuthContext.tsx                                         *)
(*   login (lines 24-46) is split at its await: the call, then one action  *)
(*   for each outcome of loginUser(); logout (lines 48-50).  A call in     *)
(*   flight remembers how many logouts had happened when it started.       *)
(***************************************************************************)
MaxLogins == 2    \* login calls in one behaviour
MaxLogouts == 2   \* logout calls in one behaviour

MockUser == "mockUser"

\* The tokens loginUser() can return in data.token.
Tokens == {"t1", "t2"}

LoginCall(id, startedAfter) == [id |-> id, startedAfter |-> startedAfter]

LoginResult(call, outcome, resolved) ==
    [id |-> call.id, outcome |-> outcome, resolved |-> resolved]

\* What AuthProvider does not touch.
authFrame ==
    <<metricVars, orderVars, tableVars, chartVars, sortRequests,
      inventoryVars, requestVars, dashboardVars, customerVars, portalVars>>

\* login up to the await: setIsLoading(true), loginUser() is called.
Login ==
    /\ Cardinality(logins) + Len(loginResults) < MaxLogins
    /\ authIsLoading' = TRUE
    /\ logins' = logins \cup
            {LoginCall(Cardinality(logins) + Len(loginResults) + 1, logouts)}
    /\ UNCHANGED <<user, token, loginResults, logouts, authFrame>>

\* loginUser() resolved with a token: the token is stored, setUser(mockUser),
\* return true; finally setIsLoading(false).
LoginReturnsToken(call, t) ==
    /\ call \in logins
    /\ logins' = logins \ {call}
    /\ token' = Some(t)
    /\ user' = Some(MockUser)
    /\ loginResults' = Append(loginResults, LoginResult(call, "token", TRUE))
    /\ authIsLoading' = FALSE
    /\ UNCHANGED <<logouts, authFrame>>

\* loginUser() resolved without a token: return false; finally
\* setIsLoading(false).
LoginReturnsNoToken(call) ==
    /\ call \in logins
    /\ logins' = logins \ {call}
    /\ loginResults' = Append(loginResults, LoginResult(call, "no token", FALSE))
    /\ authIsLoading' = FALSE
    /\ UNCHANGED <<user, token, logouts, authFrame>>

\* loginUser() rejected: the catch logs, return false; finally
\* setIsLoading(false).
LoginThrows(call) ==
    /\ call \in logins
    /\ logins' = logins \ {call}
    /\ loginResults' = Append(loginResults, LoginResult(call, "error", FALSE))
    /\ authIsLoading' = FALSE
    /\ UNCHANGED <<user, token, logouts, authFrame>>

\* logout: setUser(null).
Logout ==
    /\ logouts < MaxLogouts
    /\ user' = <<>>
    /\ logouts' = logouts + 1
    /\ UNCHANGED <<authIsLoading, token, logins, loginResults, authFrame>>

InitAuth ==
    /\ MetricsIdle
    /\ OrdersIdle
    /\ TableIdle
    /\ ChartIdle
    /\ sortRequests = <<>>
    /\ InventoryIdle
    /\ RequestsIdle
    /\ DashboardIdle
    /\ CustomerIdle
    /\ PortalIdle
    /\ AuthIdle

NextAuth ==
    \/ Login
    \/ \E call \in logins, t \in Tokens : LoginReturnsToken(call, t)
    \/ \E call \in logins : LoginReturnsNoToken(call)
    \/ \E call \in logins : LoginThrows(call)
    \/ Logout

SpecAuth == InitAuth /\ [][NextAuth]_vars

\* user becomes non-null only in the step in which a login call returns a
\* token.
UserOnlyByToken ==
    (user = <<>> /\ user' # <<>>)
        => \E call \in logins, t \in Tokens : LoginReturnsToken(call, t)

\* login resolves to true exactly when loginUser() returned a token.
ResolvedIffToken ==
    \A k \in 1..Len(loginResults') :
        loginResults'[k].resolved = (loginResults'[k].outcome = "token")

\* A login call that was in flight when logout was called does not set user.
NoSignInAcrossLogout ==
    \A call \in logins, t \in Tokens :
        LoginReturnsToken(call, t) => call.startedAfter = logouts

\* C30: user becomes non-null only when a login call returned a token, login
\* resolves to true exactly in that case, and after logout() user stays null
\* until a login call started after that logout succeeds.
C30_AuthSession ==
    [][UserOnlyByToken /\ ResolvedIffToken /\ NoSignInAcrossLogout]_vars

=============================================================================
